---- MODULE Spec2Model ----
(***************************************************************************)
(* Playback coordination of the music player: the Pinia player store       *)
(* (src/src/stores/player.ts), the player-event listener of App.vue, the   *)
(* VideoPlayer component and the store variant with the audio/video mutex. *)
(* The Rust engine behind invoke() is not part of the sources; its         *)
(* commands are modelled from the specification (spec.md 4.1, 4.4, 4.5).   *)
(***************************************************************************)
EXTENDS Integers, Sequences, FiniteSets, TLC

\* ------------------------------------------------------------------ bounds
NumTracks == 2      \* distinct tracks that can be added
MaxLen == 2         \* longest playlist
MaxEvents == 2      \* events in flight from the engine to the store
MaxTimers == 2      \* pending 500 ms timers of seekTo
MaxOps == 3         \* commands of the user in a run of mode switches and seeks

\* currentIndex = ref<number | null>(null): null is encoded as -1
None == -1

Tracks == 1..NumTracks
PlayerStates == {"Stopped", "Playing", "Paused"}
PlayModes == {"Sequential", "Repeat", "Shuffle"}

VARIABLES
  \* engine (behind invoke)
  engine_playlist, current_index, player_state, play_mode,
  \* events emitted by the engine and not yet handled by the listener
  events,
  \* store refs
  state, playlist, currentIndex, playMode, position, duration,
  isActuallyPlaying, lastPosition, positionUpdateCount, isNewSong,
  \* the store method being executed: op, pc (its await point), arg
  cmd,
  \* engine: the playback mode, the position of the audio pipeline and whether
  \* a playback session (an open decode/output handle) exists
  playback_mode, engine_position, session,
  \* store: playback mode, seek flag, the seekTo and setPlaybackMode calls in
  \* flight and the pending 500 ms timers of seekTo
  currentPlaybackMode, isTransitioning, seek, seekTimers, switch,
  \* VideoPlayer component: its refs and <video> element, the element's queued
  \* events, its pending timers and the values its watchers last saw
  video, pending, vtimers, seen,
  \* store variant with the audio/video mutex: its flags, its pending timers,
  \* the invoke() calls on their way to the engine and the replies on their
  \* way back
  isVideoPlayerActive, isAudioPlayerActive, mutexLock, mutexTimers,
  calls, replies,
  \* VideoPlayer variant that watches the flags: its refs and <video> element,
  \* the element's queued events and the values its watchers last saw
  surface, heard, watched,
  \* PlayerControls component: the position, duration and progress it
  \* displays, its isUserJumping flag and its pending protection timers
  controls,
  \* the commands the user has given
  ops

engineVars == <<engine_playlist, current_index, player_state, play_mode>>
progressVars == <<position, duration, isActuallyPlaying, lastPosition,
                  positionUpdateCount, isNewSong>>
storeVars == <<state, playlist, currentIndex, playMode, progressVars>>
avEngineVars == <<playback_mode, engine_position, session>>
sessionVars == <<engine_position, session>>
avStoreVars == <<currentPlaybackMode, isTransitioning, seek, seekTimers, switch>>
videoVars == <<video, pending, vtimers, seen>>
avVars == <<avEngineVars, avStoreVars, videoVars>>
\* what the transport commands of the engine leave alone
avRest == <<playback_mode, avStoreVars, videoVars>>
mutexVars == <<isVideoPlayerActive, isAudioPlayerActive, mutexLock, mutexTimers,
               calls, replies, surface, heard, watched>>
vars == <<engineVars, events, storeVars, cmd, avVars, mutexVars, controls, ops>>

\* ------------------------------------------------------------------ tracks
\* duration (seconds) of a track as the engine reports it in SongInfo
TrackDuration(t) == t + 2

\* cmd: the store method op awaits invoke(req, arg); pc is invoked, ok or err
Idle == [op |-> "idle", req |-> "none", pc |-> "idle", arg |-> 0]
Invoke(op, req, arg) == [op |-> op, req |-> req, pc |-> "invoked", arg |-> arg]
Returned(op, req, pc) == cmd.op = op /\ cmd.req = req /\ cmd.pc = pc
\* the method returns without invoking: its promise settles in the next step
Skip(op, why) == cmd' = [op |-> op, req |-> "none", pc |-> why, arg |-> 0]

PlayModeSeq == <<"Sequential", "Repeat", "Shuffle">>

RemoveAt(s, i) == SubSeq(s, 1, i) \o SubSeq(s, i + 2, Len(s))

\* ---------------------------------------------------------- store helpers
\* currentSong computed: a track of the store's playlist, or None
currentSong ==
  IF currentIndex # None /\ Len(playlist) > 0 /\ currentIndex < Len(playlist)
  THEN playlist[currentIndex + 1] ELSE None

isPlaying == state = "Playing"

\* progress-related refs of the store as one record
ProgressRec ==
  [position |-> position, duration |-> duration,
   isActuallyPlaying |-> isActuallyPlaying, lastPosition |-> lastPosition,
   positionUpdateCount |-> positionUpdateCount, isNewSong |-> isNewSong]

SetProgress(p) ==
  /\ position' = p.position
  /\ duration' = p.duration
  /\ isActuallyPlaying' = p.isActuallyPlaying
  /\ lastPosition' = p.lastPosition
  /\ positionUpdateCount' = p.positionUpdateCount
  /\ isNewSong' = p.isNewSong

\* positionUpdateCount++ ; the count is only ever compared with 1 and 2
MaxCount == 2
Incr(n) == IF n < MaxCount THEN n + 1 ELSE n

Abs(x) == IF x < 0 THEN -x ELSE x

resetProgress(p) ==
  [p EXCEPT !.position = 0, !.duration = 0, !.isActuallyPlaying = FALSE,
            !.lastPosition = 0, !.positionUpdateCount = 0, !.isNewSong = TRUE]

\* a faulty updateProgress: the position shown lags one second behind the report
updateProgress_Lagging(p, pos, dur, late) ==
  [p EXCEPT !.position = IF pos > 0 THEN pos - 1 ELSE 0, !.duration = dur,
            !.lastPosition = pos]

\* updateProgress(pos, dur); late is the outcome of
\* now - lastPositionUpdate > 2000 (3000 for a video file)
updateProgress(p, pos, dur, late) ==
  LET p1 == [p EXCEPT !.position = pos, !.duration = dur]
      \* the test reads duration.value after it was assigned dur
      p2 == IF pos = 0 /\ dur # p1.duration
            THEN [p1 EXCEPT !.isNewSong = TRUE, !.positionUpdateCount = 0]
            ELSE IF pos > 2 THEN [p1 EXCEPT !.isNewSong = FALSE] ELSE p1
      p3 == IF pos > p2.lastPosition /\ pos > 0
            THEN [p2 EXCEPT !.isActuallyPlaying = TRUE,
                            !.positionUpdateCount = Incr(@)]
            ELSE IF Abs(pos - p2.lastPosition) > 1
            THEN [p2 EXCEPT !.positionUpdateCount = 0,
                            !.isActuallyPlaying = FALSE]
            ELSE IF late
            THEN [p2 EXCEPT !.isActuallyPlaying = FALSE,
                            !.positionUpdateCount = 0]
            ELSE p2
  IN [p3 EXCEPT !.lastPosition = pos]

\* updateCurrentSong(index): the progress record after it
updateCurrentSong(p, index) ==
  IF currentIndex # index THEN resetProgress(p) ELSE p

\* ------------------------------------------------- engine (from the spec)
CanEmit(n) == Len(events) + n <= MaxEvents

StateChanged(s) ==
  IF player_state # s THEN <<[type |-> "StateChanged", state |-> s]>> ELSE <<>>
SongChanged(i, list) ==
  <<[type |-> "SongChanged", index |-> i, track |-> list[i + 1]]>>
PlaylistUpdated(list) == <<[type |-> "PlaylistUpdated", tracks |-> list]>>

\* faulty selectors: a shuffle that may repeat the current index, and one that
\* excludes it even when it is the only index
ShuffleChoices_Any(cur, len) == 0..(len - 1)
ShuffleChoices_Others(cur, len) == (0..(len - 1)) \ {cur}

\* Play-Mode Selector: the candidate indices; {} is "none (stop)"
ShuffleChoices(cur, len) == IF len > 1 THEN (0..(len - 1)) \ {cur} ELSE {cur}

\* a faulty selector: Repeat advances like Sequential
SelectNext_RepeatAdvances(mode, cur, len) ==
  CASE mode = "Shuffle" -> ShuffleChoices(cur, len)
    [] OTHER -> IF cur + 1 < len THEN {cur + 1} ELSE {}

\* a faulty selector: previous() at index 0 wraps to the last track
SelectPrevious_Wraps(mode, cur, len) ==
  CASE mode = "Sequential" -> IF cur - 1 >= 0 THEN {cur - 1} ELSE {len - 1}
    [] mode = "Repeat" -> {cur}
    [] mode = "Shuffle" -> ShuffleChoices(cur, len)

SelectNext(mode, cur, len) ==
  CASE mode = "Sequential" -> IF cur + 1 < len THEN {cur + 1} ELSE {}
    [] mode = "Repeat" -> {cur}
    [] mode = "Shuffle" -> ShuffleChoices(cur, len)

SelectPrevious(mode, cur, len) ==
  CASE mode = "Sequential" -> IF cur - 1 >= 0 THEN {cur - 1} ELSE {0}
    [] mode = "Repeat" -> {cur}
    [] mode = "Shuffle" -> ShuffleChoices(cur, len)

\* a track is selected and played
SelectTrack(j) ==
  /\ current_index' = j
  /\ player_state' = "Playing"
  /\ events' = events \o SongChanged(j, engine_playlist) \o StateChanged("Playing")
  \* the session of the previous track is destroyed, the new one starts at 0
  /\ session' = TRUE /\ engine_position' = 0

\* end of playlist: Stopped, current_index unchanged
StopAtEnd ==
  /\ player_state' = "Stopped"
  /\ events' = events \o StateChanged("Stopped")
  /\ UNCHANGED <<current_index, sessionVars>>

Advance(sel) ==
  IF sel = {} THEN StopAtEnd ELSE \E j \in sel : SelectTrack(j)

Reply(ok) == cmd' = [cmd EXCEPT !.pc = IF ok THEN "ok" ELSE "err"]

Received(req) == cmd.req = req /\ cmd.pc = "invoked"

\* a faulty resume: play() restarts the track from 0
Resume_Restarts ==
  IF current_index = None
  THEN IF Len(engine_playlist) > 0
       THEN SelectTrack(0)
       ELSE UNCHANGED <<current_index, player_state, events, sessionVars>>
  ELSE /\ player_state' = "Playing"
       /\ events' = events \o StateChanged("Playing")
       /\ session' = TRUE /\ engine_position' = 0
       /\ UNCHANGED current_index

\* play(): resume, or select index 0 when nothing is selected; no-op when empty
Resume ==
  IF current_index = None
  THEN IF Len(engine_playlist) > 0
       THEN SelectTrack(0)
       ELSE UNCHANGED <<current_index, player_state, events, sessionVars>>
  ELSE /\ player_state' = "Playing"
       /\ events' = events \o StateChanged("Playing")
       \* resume, no re-seek; a session is created when there is none
       /\ session' = TRUE
       /\ engine_position' = IF session THEN engine_position ELSE 0
       /\ UNCHANGED current_index

Engine_play ==
  /\ Received("play") /\ CanEmit(2)
  /\ Resume
  /\ Reply(TRUE)
  /\ UNCHANGED <<engine_playlist, play_mode, storeVars, avRest>>

Engine_pause ==
  /\ Received("pause") /\ CanEmit(1)
  /\ IF player_state = "Playing"
     THEN player_state' = "Paused" /\ events' = events \o StateChanged("Paused")
     ELSE UNCHANGED <<player_state, events>>
  /\ Reply(TRUE)
  /\ UNCHANGED <<engine_playlist, current_index, play_mode, storeVars, avVars>>

Engine_next ==
  /\ Received("next") /\ CanEmit(2)
  /\ IF current_index = None
     THEN UNCHANGED <<current_index, player_state, events, sessionVars>>
     ELSE Advance(SelectNext(play_mode, current_index, Len(engine_playlist)))
  /\ Reply(TRUE)
  /\ UNCHANGED <<engine_playlist, play_mode, storeVars, avRest>>

Engine_previous ==
  /\ Received("previous") /\ CanEmit(2)
  /\ IF current_index = None
     THEN UNCHANGED <<current_index, player_state, events, sessionVars>>
     ELSE Advance(SelectPrevious(play_mode, current_index, Len(engine_playlist)))
  /\ Reply(TRUE)
  /\ UNCHANGED <<engine_playlist, play_mode, storeVars, avRest>>

\* a faulty set_song(index): an index past the end selects the last track
Engine_set_song_Clamps ==
  /\ Received("set_song") /\ CanEmit(2)
  /\ IF cmd.arg >= 0 /\ Len(engine_playlist) > 0
     THEN /\ SelectTrack(IF cmd.arg < Len(engine_playlist) THEN cmd.arg
                         ELSE Len(engine_playlist) - 1)
          /\ Reply(TRUE)
     ELSE UNCHANGED <<current_index, player_state, events, sessionVars>> /\ Reply(FALSE)
  /\ UNCHANGED <<engine_playlist, play_mode, storeVars, avRest>>

\* set_song(index): IndexOutOfRange outside [0, len)
Engine_set_song ==
  /\ Received("set_song") /\ CanEmit(2)
  /\ IF cmd.arg >= 0 /\ cmd.arg < Len(engine_playlist)
     THEN SelectTrack(cmd.arg) /\ Reply(TRUE)
     ELSE UNCHANGED <<current_index, player_state, events, sessionVars>> /\ Reply(FALSE)
  /\ UNCHANGED <<engine_playlist, play_mode, storeVars, avRest>>

Engine_add_song ==
  /\ Received("add_song") /\ CanEmit(1)
  /\ Len(engine_playlist) < MaxLen
  /\ engine_playlist' = Append(engine_playlist, cmd.arg)
  /\ events' = events \o PlaylistUpdated(engine_playlist')
  /\ Reply(TRUE)
  /\ UNCHANGED <<current_index, player_state, play_mode, storeVars, avVars>>

\* remove(index): deletes; the current track removed leaves current_index None,
\* a track before it shifts the index with its track
Engine_remove_song ==
  /\ Received("remove_song") /\ CanEmit(1)
  /\ IF cmd.arg >= 0 /\ cmd.arg < Len(engine_playlist)
     THEN /\ engine_playlist' = RemoveAt(engine_playlist, cmd.arg)
          /\ current_index' = IF current_index = cmd.arg THEN None
                               ELSE IF current_index > cmd.arg THEN current_index - 1
                               ELSE current_index
          /\ events' = events \o PlaylistUpdated(engine_playlist')
          /\ Reply(TRUE)
     ELSE UNCHANGED <<engine_playlist, current_index, events>> /\ Reply(FALSE)
  /\ UNCHANGED <<player_state, play_mode, storeVars, avVars>>

Engine_clear_playlist ==
  /\ Received("clear_playlist") /\ CanEmit(1)
  /\ engine_playlist' = <<>>
  /\ current_index' = None
  /\ events' = events \o PlaylistUpdated(<<>>)
  /\ Reply(TRUE)
  /\ UNCHANGED <<player_state, play_mode, storeVars, avVars>>

Engine_set_play_mode ==
  /\ Received("set_play_mode")
  /\ play_mode' = PlayModeSeq[cmd.arg]
  /\ Reply(TRUE)
  /\ UNCHANGED <<engine_playlist, current_index, player_state, events, storeVars, avVars>>

\* natural end of the current track: the same advancement as next()
EndOfTrack ==
  /\ player_state = "Playing" /\ current_index # None /\ CanEmit(2)
  /\ Advance(SelectNext(play_mode, current_index, Len(engine_playlist)))
  /\ UNCHANGED <<engine_playlist, play_mode, storeVars, cmd, avRest>>

\* ------------------------------------------------------------ store methods
\* a faulty play(): without the return on an empty playlist
play_Unguarded ==
  /\ cmd = Idle
  /\ IF currentIndex = None /\ Len(playlist) > 0
     THEN cmd' = Invoke("play", "set_song", 0)
     ELSE cmd' = Invoke("play", "play", 0)
  /\ UNCHANGED <<engineVars, events, storeVars, avVars>>

\* play(): up to its first await
play ==
  /\ cmd = Idle
  /\ IF currentIndex = None /\ Len(playlist) > 0
     THEN cmd' = Invoke("play", "set_song", 0)
     ELSE IF currentIndex = None \/ Len(playlist) = 0
     THEN Skip("play", "noop")
     ELSE cmd' = Invoke("play", "play", 0)
  /\ UNCHANGED <<engineVars, events, storeVars, avVars>>

\* play() after await setCurrentSong(0)
play_selected ==
  /\ cmd.op = "play" /\ cmd.req = "set_song" /\ cmd.pc \in {"ok", "err"}
  /\ IF cmd.pc = "ok"
     THEN /\ currentIndex' = cmd.arg
          /\ state' = "Playing"
          /\ IF Len(playlist) = 0
             THEN Skip("play", "noop")
             ELSE cmd' = Invoke("play", "play", 0)
     ELSE cmd' = Idle /\ UNCHANGED <<currentIndex, state>>
  /\ UNCHANGED <<engineVars, events, playlist, playMode, progressVars, avVars>>

\* play() after await invoke('play')
play_return ==
  /\ cmd.op = "play" /\ cmd.req = "play" /\ cmd.pc \in {"ok", "err"}
  /\ IF cmd.pc = "ok"
     THEN state' = "Playing" /\ cmd' = Idle
     ELSE UNCHANGED state /\ cmd' = Idle
  /\ UNCHANGED <<engineVars, events, playlist, currentIndex, playMode, progressVars, avVars>>

pause ==
  /\ cmd = Idle
  /\ cmd' = Invoke("pause", "pause", 0)
  /\ UNCHANGED <<engineVars, events, storeVars, avVars>>

pause_return ==
  /\ cmd.op = "pause" /\ cmd.pc \in {"ok", "err"}
  /\ IF cmd.pc = "ok"
     THEN state' = "Paused" /\ cmd' = Idle
     ELSE UNCHANGED state /\ cmd' = Idle
  /\ UNCHANGED <<engineVars, events, playlist, currentIndex, playMode, progressVars, avVars>>

next ==
  /\ cmd = Idle
  /\ cmd' = Invoke("next", "next", 0)
  /\ UNCHANGED <<engineVars, events, storeVars, avVars>>

\* a faulty next(): it leaves the state to the engine's events
next_return_KeepsState ==
  /\ cmd.op = "next" /\ cmd.pc \in {"ok", "err"}
  /\ cmd' = Idle
  /\ UNCHANGED <<engineVars, events, storeVars, avVars>>

next_return ==
  /\ cmd.op = "next" /\ cmd.pc \in {"ok", "err"}
  /\ IF cmd.pc = "ok"
     THEN state' = "Playing" /\ cmd' = Idle
     ELSE UNCHANGED state /\ cmd' = Idle
  /\ UNCHANGED <<engineVars, events, playlist, currentIndex, playMode, progressVars, avVars>>

previous ==
  /\ cmd = Idle
  /\ cmd' = Invoke("previous", "previous", 0)
  /\ UNCHANGED <<engineVars, events, storeVars, avVars>>

previous_return ==
  /\ cmd.op = "previous" /\ cmd.pc \in {"ok", "err"}
  /\ IF cmd.pc = "ok"
     THEN state' = "Playing" /\ cmd' = Idle
     ELSE UNCHANGED state /\ cmd' = Idle
  /\ UNCHANGED <<engineVars, events, playlist, currentIndex, playMode, progressVars, avVars>>

setCurrentSong(index) ==
  /\ cmd = Idle
  /\ IF index >= 0 /\ index < Len(playlist)
     THEN cmd' = Invoke("setCurrentSong", "set_song", index)
     ELSE Skip("setCurrentSong", "ignored")
  /\ UNCHANGED <<engineVars, events, storeVars, avVars>>

setCurrentSong_return ==
  /\ cmd.op = "setCurrentSong" /\ cmd.pc \in {"ok", "err"}
  /\ IF cmd.pc = "ok"
     THEN /\ currentIndex' = cmd.arg
          /\ state' = "Playing"
          /\ cmd' = Idle
     ELSE UNCHANGED <<currentIndex, state>> /\ cmd' = Idle
  /\ UNCHANGED <<engineVars, events, playlist, playMode, progressVars, avVars>>

addSong(t) ==
  /\ cmd = Idle
  /\ cmd' = Invoke("addSong", "add_song", t)
  /\ UNCHANGED <<engineVars, events, storeVars, avVars>>

addSong_return ==
  /\ cmd.op = "addSong" /\ cmd.pc \in {"ok", "err"}
  /\ cmd' = Idle
  /\ UNCHANGED <<engineVars, events, storeVars, avVars>>

removeSong(index) ==
  /\ cmd = Idle
  /\ cmd' = Invoke("removeSong", "remove_song", index)
  /\ UNCHANGED <<engineVars, events, storeVars, avVars>>

removeSong_return ==
  /\ cmd.op = "removeSong" /\ cmd.pc \in {"ok", "err"}
  /\ cmd' = Idle
  /\ UNCHANGED <<engineVars, events, storeVars, avVars>>

clearPlaylist ==
  /\ cmd = Idle
  /\ cmd' = Invoke("clearPlaylist", "clear_playlist", 0)
  /\ UNCHANGED <<engineVars, events, storeVars, avVars>>

clearPlaylist_return ==
  /\ cmd.op = "clearPlaylist" /\ cmd.pc \in {"ok", "err"}
  /\ IF cmd.pc = "ok"
     THEN /\ playlist' = <<>>
          /\ currentIndex' = None
          /\ cmd' = Idle
     ELSE UNCHANGED <<playlist, currentIndex>> /\ cmd' = Idle
  /\ UNCHANGED <<engineVars, events, state, playMode, progressVars, avVars>>

\* Playlist.vue: the clear button invokes clear_playlist itself
handleClearPlaylist ==
  /\ cmd = Idle
  /\ Len(playlist) > 0
  /\ cmd' = Invoke("handleClearPlaylist", "clear_playlist", 0)
  /\ UNCHANGED <<engineVars, events, storeVars, avVars>>

handleClearPlaylist_return ==
  /\ cmd.op = "handleClearPlaylist" /\ cmd.pc \in {"ok", "err"}
  /\ cmd' = Idle
  /\ UNCHANGED <<engineVars, events, storeVars, avVars>>

setPlayMode(m) ==
  /\ cmd = Idle
  /\ cmd' = Invoke("setPlayMode", "set_play_mode", m)
  /\ UNCHANGED <<engineVars, events, storeVars, avVars>>

setPlayMode_return ==
  /\ cmd.op = "setPlayMode" /\ cmd.pc \in {"ok", "err"}
  /\ IF cmd.pc = "ok"
     THEN playMode' = PlayModeSeq[cmd.arg] /\ cmd' = Idle
     ELSE UNCHANGED playMode /\ cmd' = Idle
  /\ UNCHANGED <<engineVars, events, state, playlist, currentIndex, progressVars, avVars>>

\* a method that returned without invoking is over
Settle ==
  /\ cmd.pc \in {"noop", "ignored"}
  /\ cmd' = Idle
  /\ UNCHANGED <<engineVars, events, storeVars, avVars>>

\* ------------------------------------------- App.vue player-event listener
OnStateChanged ==
  /\ events # <<>> /\ Head(events).type = "StateChanged"
  /\ state' = Head(events).state
  /\ events' = Tail(events)
  /\ UNCHANGED <<engineVars, playlist, currentIndex, playMode, progressVars, cmd, avVars>>

\* a faulty listener: SongChanged only updates the current song
OnSongChanged_IndexOnly ==
  /\ events # <<>> /\ Head(events).type = "SongChanged"
  /\ SetProgress(updateCurrentSong(ProgressRec, Head(events).index))
  /\ currentIndex' = Head(events).index
  /\ events' = Tail(events)
  /\ UNCHANGED <<engineVars, state, playlist, playMode, cmd, avVars>>

OnSongChanged ==
  /\ events # <<>> /\ Head(events).type = "SongChanged"
  /\ \E late \in BOOLEAN :
       SetProgress(updateProgress(updateCurrentSong(ProgressRec, Head(events).index),
                                  0, TrackDuration(Head(events).track), late))
  /\ currentIndex' = Head(events).index
  /\ events' = Tail(events)
  /\ UNCHANGED <<engineVars, state, playlist, playMode, cmd, avVars>>

\* a faulty listener: the tracks of PlaylistUpdated are appended
OnPlaylistUpdated_Appends ==
  /\ events # <<>> /\ Head(events).type = "PlaylistUpdated"
  /\ LET all == playlist \o Head(events).tracks
     IN playlist' = SubSeq(all, 1, IF Len(all) > MaxLen THEN MaxLen ELSE Len(all))
  /\ events' = Tail(events)
  /\ UNCHANGED <<engineVars, state, currentIndex, playMode, progressVars, cmd, avVars>>

OnPlaylistUpdated ==
  /\ events # <<>> /\ Head(events).type = "PlaylistUpdated"
  /\ playlist' = Head(events).tracks
  /\ events' = Tail(events)
  /\ UNCHANGED <<engineVars, state, currentIndex, playMode, progressVars, cmd, avVars>>

\* ------------------------------------------------------ media of a track
MediaTypes == {"Audio", "Video"}

\* SongInfo.mvPath: the tracks that carry a companion video
HasMv(t) == t % 2 = 0

\* SongInfo.mediaType: the tracks are audio files
mediaType(t) == "Audio"

Clamp(p, lo, hi) == IF p < lo THEN lo ELSE IF p > hi THEN hi ELSE p

\* PlayerControls before a track is shown
NoControls ==
  [position |-> 0, duration |-> 0, progress |-> 0, isUserJumping |-> FALSE,
   timers |-> 0]

\* the seekTo() and setPlaybackMode() calls in flight
NoSeek == [pc |-> "idle", target |-> 0]
NoSwitch == [pc |-> "idle", target |-> "Audio", oldMode |-> "Audio", wasPlaying |-> FALSE]

\* ---------------------------------------- engine: seek, mode, ticker (spec)
ProgressUpdate(pos, dur) ==
  <<[type |-> "ProgressUpdate", position |-> pos, duration |-> dur]>>

\* seek_to(p): the pipeline position is clamped to [0, duration]; SeekError
Engine_seek_to ==
  /\ seek.pc = "invoked"
  /\ \E ok \in BOOLEAN :
       /\ seek' = [seek EXCEPT !.pc = IF ok THEN "ok" ELSE "err"]
       /\ engine_position' =
            IF ok /\ current_index # None
            THEN Clamp(seek.target, 0, TrackDuration(engine_playlist[current_index + 1]))
            ELSE engine_position
  /\ UNCHANGED <<engineVars, events, storeVars, cmd, playback_mode, session,
                 currentPlaybackMode, isTransitioning, seekTimers, switch, videoVars>>

\* an arbiter that opens the pipeline afresh when it hands over to Audio
Engine_set_playback_mode_Reopens ==
  /\ switch.pc = "invoked"
  /\ \E ok \in BOOLEAN :
       /\ switch' = [switch EXCEPT !.pc = IF ok THEN "ok" ELSE "err"]
       /\ playback_mode' = IF ok THEN switch.target ELSE playback_mode
       /\ engine_position' = IF ok /\ switch.target = "Audio" THEN 0 ELSE engine_position
  /\ UNCHANGED <<engineVars, events, storeVars, cmd, session,
                 currentPlaybackMode, isTransitioning, seek, seekTimers, videoVars>>

\* an arbiter without a grace period: it hands over only once the outgoing
\* video surface has stopped
Engine_set_playback_mode_AwaitsAck ==
  /\ switch.pc = "invoked"
  /\ switch.oldMode = "Video" => (~video.mounted \/ video.paused)
  /\ \E ok \in BOOLEAN :
       /\ switch' = [switch EXCEPT !.pc = IF ok THEN "ok" ELSE "err"]
       /\ playback_mode' = IF ok THEN switch.target ELSE playback_mode
  /\ UNCHANGED <<engineVars, events, storeVars, cmd, sessionVars,
                 currentPlaybackMode, isTransitioning, seek, seekTimers, videoVars>>

\* set_playback_mode(target): the arbiter hands the transport to target
Engine_set_playback_mode ==
  /\ switch.pc = "invoked"
  /\ \E ok \in BOOLEAN :
       /\ switch' = [switch EXCEPT !.pc = IF ok THEN "ok" ELSE "err"]
       /\ playback_mode' = IF ok THEN switch.target ELSE playback_mode
  /\ UNCHANGED <<engineVars, events, storeVars, cmd, sessionVars,
                 currentPlaybackMode, isTransitioning, seek, seekTimers, videoVars>>

\* play(), invoked by setPlaybackMode after a switch from Video to Audio
Engine_play_switched ==
  /\ switch.pc = "play_invoked" /\ CanEmit(2)
  /\ Resume
  /\ switch' = [switch EXCEPT !.pc = "play_ok"]
  /\ UNCHANGED <<engine_playlist, play_mode, storeVars, cmd, playback_mode,
                 currentPlaybackMode, isTransitioning, seek, seekTimers, videoVars>>

\* a faulty ticker: the sampled position is not clamped to the duration
Tick_Overruns ==
  /\ playback_mode = "Audio" /\ player_state = "Playing" /\ current_index # None
  /\ CanEmit(1)
  /\ \A k \in 1..Len(events) : events[k].type # "ProgressUpdate"
  /\ LET dur == TrackDuration(engine_playlist[current_index + 1])
     IN /\ engine_position <= dur
        /\ engine_position' = engine_position + 1
        /\ events' = events \o ProgressUpdate(engine_position', dur)
  /\ UNCHANGED <<engineVars, storeVars, cmd, playback_mode, session, avStoreVars,
                 videoVars>>

\* a ticker that samples in either playback mode
Tick_AnyMode ==
  /\ player_state = "Playing" /\ current_index # None
  /\ CanEmit(1)
  /\ \A k \in 1..Len(events) : events[k].type # "ProgressUpdate"
  /\ LET dur == TrackDuration(engine_playlist[current_index + 1])
     IN /\ engine_position < dur
        /\ engine_position' = engine_position + 1
        /\ events' = events \o ProgressUpdate(engine_position', dur)
  /\ UNCHANGED <<engineVars, storeVars, cmd, playback_mode, session, avStoreVars,
                 videoVars>>

\* a ticker that keeps sampling while the state machine is Paused
Tick_WhilePaused ==
  /\ playback_mode = "Audio" /\ player_state \in {"Playing", "Paused"}
  /\ current_index # None
  /\ CanEmit(1)
  /\ \A k \in 1..Len(events) : events[k].type # "ProgressUpdate"
  /\ LET dur == TrackDuration(engine_playlist[current_index + 1])
     IN /\ engine_position < dur
        /\ engine_position' = engine_position + 1
        /\ events' = events \o ProgressUpdate(engine_position', dur)
  /\ UNCHANGED <<engineVars, storeVars, cmd, playback_mode, session, avStoreVars,
                 videoVars>>

\* Progress Ticker: while AudioOwned and Playing the pipeline advances and a
\* progress event (position, duration) is emitted
Tick ==
  /\ playback_mode = "Audio" /\ player_state = "Playing" /\ current_index # None
  /\ CanEmit(1)
  \* the listener has handled a progress event before the next one is emitted
  /\ \A k \in 1..Len(events) : events[k].type # "ProgressUpdate"
  /\ LET dur == TrackDuration(engine_playlist[current_index + 1])
     IN /\ engine_position < dur
        /\ engine_position' = engine_position + 1
        /\ events' = events \o ProgressUpdate(engine_position', dur)
  /\ UNCHANGED <<engineVars, storeVars, cmd, playback_mode, session, avStoreVars,
                 videoVars>>

\* ------------------------------------------- store: seekTo, setPlaybackMode
\* setTransitioning(transitioning) on the progress record
setTransitioning(p, transitioning) ==
  IF transitioning
  THEN [p EXCEPT !.isActuallyPlaying = FALSE, !.positionUpdateCount = 0]
  ELSE p

isVideoMode ==
  \/ mediaType(currentSong) = "Video"
  \/ (currentPlaybackMode = "Video" /\ HasMv(currentSong))

\* a seekTo that takes the audio branch in either mode
seekTo_AlwaysInvokes(targetPosition) ==
  /\ seek.pc = "idle" /\ seekTimers < MaxTimers
  /\ currentSong # None
  /\ isTransitioning' = TRUE
  /\ SetProgress([setTransitioning(ProgressRec, TRUE)
                    EXCEPT !.position = targetPosition])
  /\ seek' = [pc |-> "invoked", target |-> targetPosition]
  /\ UNCHANGED <<engineVars, events, state, playlist, currentIndex, playMode, cmd,
                 avEngineVars, currentPlaybackMode, seekTimers, switch, videoVars>>

\* seekTo(targetPosition): up to its await
seekTo(targetPosition) ==
  /\ seek.pc = "idle" /\ seekTimers < MaxTimers
  /\ currentSong # None
  /\ IF isVideoMode
     THEN /\ position' = targetPosition
          /\ UNCHANGED <<duration, isActuallyPlaying, lastPosition,
                         positionUpdateCount, isNewSong, isTransitioning, seek>>
     ELSE /\ isTransitioning' = TRUE
          /\ SetProgress([setTransitioning(ProgressRec, TRUE)
                            EXCEPT !.position = targetPosition])
          /\ seek' = [pc |-> "invoked", target |-> targetPosition]
  /\ UNCHANGED <<engineVars, events, state, playlist, currentIndex, playMode, cmd,
                 avEngineVars, currentPlaybackMode, seekTimers, switch, videoVars>>

\* seekTo after await invoke('seek_to'): the 500 ms timer, or the catch
seekTo_return ==
  /\ seek.pc \in {"ok", "err"}
  /\ IF seek.pc = "ok"
     THEN seekTimers' = seekTimers + 1 /\ UNCHANGED isTransitioning
     ELSE isTransitioning' = FALSE /\ UNCHANGED seekTimers
  /\ seek' = NoSeek
  /\ UNCHANGED <<engineVars, events, storeVars, cmd, avEngineVars,
                 currentPlaybackMode, switch, videoVars>>

\* the 500 ms timer of seekTo fires: setTransitioning(false)
seekTo_timeout ==
  /\ seekTimers > 0
  /\ seekTimers' = seekTimers - 1
  /\ isTransitioning' = FALSE
  /\ UNCHANGED <<engineVars, events, storeVars, cmd, avEngineVars,
                 currentPlaybackMode, seek, switch, videoVars>>

\* a faulty setPlaybackMode: the local mode is set before the engine replies
setPlaybackMode_Eager(m) ==
  /\ switch.pc = "idle"
  /\ currentSong # None /\ HasMv(currentSong)
  /\ switch' = [pc |-> "invoked", target |-> m, oldMode |-> currentPlaybackMode,
              wasPlaying |-> isPlaying]
  /\ currentPlaybackMode' = m
  /\ UNCHANGED <<engineVars, events, storeVars, cmd, avEngineVars,
                 isTransitioning, seek, seekTimers, videoVars>>

\* setPlaybackMode(mode): up to await invoke('set_playback_mode')
setPlaybackMode(m) ==
  /\ switch.pc = "idle"
  /\ currentSong # None /\ HasMv(currentSong)
  /\ switch' = [pc |-> "invoked", target |-> m, oldMode |-> currentPlaybackMode,
              wasPlaying |-> isPlaying]
  /\ UNCHANGED <<engineVars, events, storeVars, cmd, avEngineVars,
                 currentPlaybackMode, isTransitioning, seek, seekTimers, videoVars>>

\* a faulty setPlaybackMode: the local mode is not set on the way to Audio
setPlaybackMode_return_VideoOnly ==
  /\ switch.pc \in {"ok", "err"}
  /\ IF switch.pc = "ok"
     THEN IF switch.oldMode = "Video" /\ switch.target = "Audio"
          THEN /\ switch' = [switch EXCEPT !.pc = "waiting"]
               /\ UNCHANGED currentPlaybackMode
          ELSE /\ currentPlaybackMode' = switch.target
               /\ switch' = NoSwitch
     ELSE /\ currentPlaybackMode' = switch.oldMode
          /\ switch' = NoSwitch
  /\ UNCHANGED <<engineVars, events, storeVars, cmd, avEngineVars,
                 isTransitioning, seek, seekTimers, videoVars>>

\* a setPlaybackMode whose catch keeps the requested mode
setPlaybackMode_return_NoRollback ==
  /\ switch.pc \in {"ok", "err"}
  /\ currentPlaybackMode' = switch.target
  /\ switch' = IF switch.pc = "ok" /\ switch.oldMode = "Video" /\ switch.target = "Audio"
               THEN [switch EXCEPT !.pc = "waiting"] ELSE NoSwitch
  /\ UNCHANGED <<engineVars, events, storeVars, cmd, avEngineVars,
                 isTransitioning, seek, seekTimers, videoVars>>

\* setPlaybackMode after the await: the local mode, then the 200 ms wait of a
\* switch from Video to Audio; the catch rolls the local mode back
setPlaybackMode_return ==
  /\ switch.pc \in {"ok", "err"}
  /\ IF switch.pc = "ok"
     THEN /\ currentPlaybackMode' = switch.target
          /\ switch' = IF switch.oldMode = "Video" /\ switch.target = "Audio"
                     THEN [switch EXCEPT !.pc = "waiting"] ELSE NoSwitch
     ELSE /\ currentPlaybackMode' = switch.oldMode
          /\ switch' = NoSwitch
  /\ UNCHANGED <<engineVars, events, storeVars, cmd, avEngineVars,
                 isTransitioning, seek, seekTimers, videoVars>>

\* the 200 ms wait is over: state = Playing, then invoke('play')
setPlaybackMode_resume ==
  /\ switch.pc = "waiting"
  /\ state' = "Playing"
  /\ switch' = [switch EXCEPT !.pc = IF switch.wasPlaying \/ switch.oldMode = "Video"
                                 THEN "play_invoked" ELSE "play_ok"]
  /\ UNCHANGED <<engineVars, events, playlist, currentIndex, playMode, progressVars,
                 cmd, avEngineVars, currentPlaybackMode, isTransitioning, seek,
                 seekTimers, videoVars>>

\* setPlaybackMode after await invoke('play')
setPlaybackMode_done ==
  /\ switch.pc = "play_ok"
  /\ switch' = NoSwitch
  /\ UNCHANGED <<engineVars, events, storeVars, cmd, avEngineVars,
                 currentPlaybackMode, isTransitioning, seek, seekTimers, videoVars>>

\* player-event listener: ProgressUpdate
OnProgressUpdate ==
  /\ events # <<>> /\ Head(events).type = "ProgressUpdate"
  /\ \E late \in BOOLEAN :
       SetProgress(updateProgress(ProgressRec, Head(events).position,
                                  Head(events).duration, late))
  /\ events' = Tail(events)
  /\ UNCHANGED <<engineVars, state, playlist, currentIndex, playMode, cmd, avVars>>

\* ------------------------------------------------ VideoPlayer component
\* App.vue: shouldShowVideo, the v-if of <VideoPlayer>
shouldShowVideo ==
  /\ currentSong # None
  /\ \/ (currentPlaybackMode = "Video" /\ HasMv(currentSong))
     \/ mediaType(currentSong) = "Video"

\* no VideoPlayer instance; element is the readiness of its <video>:
\* none, loading, metadata, loaded
NoVideo ==
  [mounted |-> FALSE, element |-> "none", paused |-> TRUE, currentTime |-> 0,
   isVideoLoaded |-> FALSE, isVideoPlaying |-> FALSE, actualVideoDuration |-> 0,
   isUserSeeking |-> FALSE, isPlayerControlsJumping |-> FALSE, seekTime |-> 0]

\* a new instance: the immediate watchers set videoSrc and the element loads
Mounted == [NoVideo EXCEPT !.mounted = TRUE, !.element = "loading"]

\* what the watchers of the component watch
Watched ==
  [isPlaying |-> isPlaying, position |-> position, mode |-> currentPlaybackMode]
Unwatched == [isPlaying |-> FALSE, position |-> 0, mode |-> "Audio"]

VideoDuration == TrackDuration(currentSong)

\* a watcher's result: the component, the element events and timers it adds
Same(v) == [v |-> v, ev |-> {}, tm |-> {}]

\* watch(() => props.isPlaying)
watchIsPlaying(v) ==
  IF v.element # "none" /\ v.isVideoLoaded
  THEN IF isPlaying /\ ~v.isVideoPlaying
       THEN [v |-> [v EXCEPT !.paused = FALSE, !.isVideoPlaying = TRUE],
             ev |-> {"play"}, tm |-> {}]
       ELSE IF ~isPlaying /\ v.isVideoPlaying
       THEN [v |-> [v EXCEPT !.paused = TRUE, !.isVideoPlaying = FALSE],
             ev |-> {"pause"}, tm |-> {}]
       ELSE Same(v)
  ELSE Same(v)

\* watch(() => playerStore.position): a jump of the main progress bar
watchPosition(v, newPosition, oldPosition) ==
  IF /\ v.element # "none" /\ v.isVideoLoaded /\ ~v.isUserSeeking
     /\ Abs(newPosition - v.currentTime) > 3
     /\ Abs(newPosition - oldPosition) > 2
  THEN [v |-> [v EXCEPT !.isUserSeeking = TRUE, !.isPlayerControlsJumping = TRUE,
                        !.currentTime = Clamp(newPosition, 0, VideoDuration)],
        ev |-> {"seeked"}, tm |-> {"jump"}]
  ELSE Same(v)

\* watch(() => playerStore.currentPlaybackMode)
watchPlaybackMode(v) ==
  IF currentPlaybackMode = "Video" /\ shouldShowVideo
  THEN [v |-> [v EXCEPT !.isVideoLoaded = FALSE, !.isVideoPlaying = FALSE,
                        !.element = "loading", !.paused = TRUE, !.currentTime = 0],
        ev |-> {}, tm |-> {}]
  ELSE IF currentPlaybackMode = "Audio"
  THEN [v |-> [v EXCEPT !.paused = TRUE, !.currentTime = 0, !.element = "none",
                        !.isVideoLoaded = FALSE, !.isVideoPlaying = FALSE],
        ev |-> {}, tm |-> {}]
  ELSE Same(v)

\* the watchers whose source changed, in the order of their declaration
RunWatchers(v) ==
  LET r1 == IF seen.isPlaying # isPlaying THEN watchIsPlaying(v) ELSE Same(v)
      r2 == IF seen.position # position
            THEN watchPosition(r1.v, position, seen.position) ELSE Same(r1.v)
      r3 == IF seen.mode # currentPlaybackMode
            THEN watchPlaybackMode(r2.v) ELSE Same(r2.v)
  IN [v |-> r3.v, ev |-> r1.ev \cup r2.ev \cup r3.ev, tm |-> r1.tm \cup r2.tm \cup r3.tm]

\* a change of the store is followed by the render and the watchers, before
\* the next event, timer or reply is handled
Dirty == shouldShowVideo # video.mounted \/ (video.mounted /\ seen # Watched)

Flush ==
  /\ Dirty
  /\ IF ~shouldShowVideo
     THEN video' = NoVideo /\ pending' = {} /\ vtimers' = {} /\ seen' = Unwatched
     ELSE IF ~video.mounted
     THEN video' = Mounted /\ pending' = {} /\ vtimers' = {} /\ seen' = Watched
     ELSE LET r == RunWatchers(video)
          IN /\ video' = r.v
             /\ pending' = IF r.v.element = "none" THEN {} ELSE pending \cup r.ev
             /\ vtimers' = vtimers \cup r.tm
             /\ seen' = Watched
  /\ UNCHANGED <<engineVars, events, storeVars, cmd, avEngineVars, avStoreVars>>

\* playerStore.play() / pause() called by a handler of the component
CallPlay ==
  IF isPlaying THEN UNCHANGED cmd
  ELSE cmd = Idle /\ cmd' = Invoke("play", "play", 0)

\* @loadedmetadata
handleVideoLoadedMetadata ==
  /\ video.mounted /\ video.element = "loading"
  /\ video' = [video EXCEPT !.element = "metadata",
                            !.actualVideoDuration = VideoDuration]
  /\ \E late \in BOOLEAN :
       SetProgress(updateProgress(ProgressRec, 0, VideoDuration, late))
  /\ UNCHANGED <<engineVars, events, state, playlist, currentIndex, playMode, cmd,
                 avEngineVars, avStoreVars, pending, vtimers, seen>>

\* @loadeddata without autoplay: the loaded video stays paused
handleVideoLoaded_NoAutoplay ==
  /\ video.mounted /\ video.element = "metadata"
  /\ video' = [video EXCEPT !.element = "loaded", !.isVideoLoaded = TRUE]
  /\ UNCHANGED <<engineVars, events, storeVars, cmd, avEngineVars, avStoreVars,
                 pending, vtimers, seen>>

\* @loadeddata: the video starts whatever the state of the store
handleVideoLoaded ==
  /\ video.mounted /\ video.element = "metadata"
  /\ video' = [video EXCEPT !.element = "loaded", !.isVideoLoaded = TRUE,
                            !.paused = FALSE, !.isVideoPlaying = TRUE]
  /\ pending' = pending \cup {"play"}
  /\ CallPlay
  /\ UNCHANGED <<engineVars, events, storeVars, avEngineVars, avStoreVars,
                 vtimers, seen>>

\* the video advances; @timeupdate
handleTimeUpdate ==
  /\ video.mounted /\ video.element = "loaded" /\ ~video.paused
  /\ video.currentTime < VideoDuration
  /\ video' = [video EXCEPT !.currentTime = @ + 1,
                            !.actualVideoDuration = VideoDuration]
  /\ IF video.isVideoLoaded /\ video.isVideoPlaying /\ ~video.isUserSeeking
     THEN \E late \in BOOLEAN :
            SetProgress(updateProgress(ProgressRec, video.currentTime + 1,
                                       VideoDuration, late))
     ELSE UNCHANGED progressVars
  /\ UNCHANGED <<engineVars, events, state, playlist, currentIndex, playMode, cmd,
                 avEngineVars, avStoreVars, pending, vtimers, seen>>

\* @play
handleVideoPlay ==
  /\ "play" \in pending
  /\ pending' = pending \ {"play"}
  /\ video' = [video EXCEPT !.isVideoPlaying = TRUE]
  /\ CallPlay
  /\ UNCHANGED <<engineVars, events, storeVars, avEngineVars, avStoreVars,
                 vtimers, seen>>

\* @pause
handleVideoPause ==
  /\ "pause" \in pending
  /\ pending' = pending \ {"pause"}
  /\ video' = [video EXCEPT !.isVideoPlaying = FALSE]
  /\ IF isPlaying
     THEN cmd = Idle /\ cmd' = Invoke("pause", "pause", 0)
     ELSE UNCHANGED cmd
  /\ UNCHANGED <<engineVars, events, storeVars, avEngineVars, avStoreVars,
                 vtimers, seen>>

\* @seeked: a seek that did not come from the main progress bar
handleVideoSeek ==
  /\ "seeked" \in pending
  /\ pending' = pending \ {"seeked"}
  /\ IF video.actualVideoDuration > 0 /\ ~video.isPlayerControlsJumping
     THEN /\ video' = [video EXCEPT !.isUserSeeking = TRUE,
                                    !.seekTime = video.currentTime]
          /\ vtimers' = vtimers \cup {"seek"}
     ELSE UNCHANGED <<video, vtimers>>
  /\ UNCHANGED <<engineVars, events, storeVars, cmd, avEngineVars, avStoreVars, seen>>

\* handleVideoSeek, 100 ms later: the position is reported to the store
handleVideoSeek_update ==
  /\ "seek" \in vtimers
  /\ vtimers' = (vtimers \ {"seek"}) \cup {"release"}
  /\ IF Abs(video.currentTime - video.seekTime) < 1
     THEN \E late \in BOOLEAN :
            SetProgress(updateProgress(ProgressRec, video.seekTime,
                                       video.actualVideoDuration, late))
     ELSE UNCHANGED progressVars
  /\ UNCHANGED <<engineVars, events, state, playlist, currentIndex, playMode, cmd,
                 avEngineVars, avStoreVars, video, pending, seen>>

\* handleVideoSeek, 300 ms after that
handleVideoSeek_release ==
  /\ "release" \in vtimers
  /\ vtimers' = vtimers \ {"release"}
  /\ video' = [video EXCEPT !.isUserSeeking = FALSE]
  /\ UNCHANGED <<engineVars, events, storeVars, cmd, avEngineVars, avStoreVars,
                 pending, seen>>

\* watch(position), 200 ms after the jump
watchPosition_release ==
  /\ "jump" \in vtimers
  /\ vtimers' = vtimers \ {"jump"}
  /\ video' = [video EXCEPT !.isUserSeeking = FALSE,
                            !.isPlayerControlsJumping = FALSE]
  /\ UNCHANGED <<engineVars, events, storeVars, cmd, avEngineVars, avStoreVars,
                 pending, seen>>

\* ------------------------------ store variant with the audio/video mutex
\* invoke() calls in flight to the engine, and replies in flight to the store
MaxCalls == 2

\* an invoke(req, arg) and what awaits it: then names the continuation (none
\* for a call whose promise nobody awaits), mode/was the locals it captured
Call(req, arg, then, old, was) ==
  [req |-> req, arg |-> arg, then |-> then, old |-> old, was |-> was, ok |-> TRUE]

\* no VideoPlayer instance; isVideoIsolated stands for videoInteractionBlock
\* too, the component always assigning the two together
NoSurface ==
  [mounted |-> FALSE, isVideoLoaded |-> FALSE, paused |-> TRUE,
   isVideoPlaying |-> FALSE, ended |-> FALSE, isVideoIsolated |-> FALSE]

\* the store refs and component refs a synchronous run of code can change
Here ==
  [state |-> state,
   isVideoPlayerActive |-> isVideoPlayerActive,
   isAudioPlayerActive |-> isAudioPlayerActive,
   mutexLock |-> mutexLock, timers |-> mutexTimers, calls |-> calls,
   surface |-> surface, heard |-> heard]

\* the run ends in b; it could only invoke what fits the bound on calls
Put(b) ==
  /\ Len(b.calls) <= MaxCalls
  /\ state' = b.state
  /\ isVideoPlayerActive' = b.isVideoPlayerActive
  /\ isAudioPlayerActive' = b.isAudioPlayerActive
  /\ mutexLock' = b.mutexLock /\ mutexTimers' = b.timers /\ calls' = b.calls
  /\ surface' = b.surface /\ heard' = b.heard

\* what the methods of this store and this component never touch
mutexFrame ==
  <<engine_playlist, play_mode, playlist, playMode, cmd,
    isTransitioning, seek, seekTimers, switch, videoVars>>
engineFrame == <<current_index, player_state, playback_mode, events, sessionVars>>
songFrame == <<currentIndex, progressVars>>

\* activateVideoPlayer(): refused (returns false) while the lock is held
activateVideoPlayer(b) ==
  IF b.mutexLock THEN b
  ELSE [b EXCEPT !.mutexLock = TRUE,
                 !.isAudioPlayerActive = FALSE,
                 !.calls = IF b.isAudioPlayerActive
                           THEN Append(@, Call("pause", 0, "none", "Audio", FALSE))
                           ELSE @,
                 !.isVideoPlayerActive = TRUE,
                 !.timers = @ \cup {"unlockVideo"}]

activateAudioPlayer(b) ==
  IF b.mutexLock THEN b
  ELSE [b EXCEPT !.mutexLock = TRUE,
                 !.isVideoPlayerActive = FALSE,
                 !.isAudioPlayerActive = TRUE,
                 !.timers = @ \cup {"unlockAudio"}]

deactivateVideoPlayer(b) == [b EXCEPT !.isVideoPlayerActive = FALSE]
deactivateAudioPlayer(b) == [b EXCEPT !.isAudioPlayerActive = FALSE]

checkPlaybackState(b) ==
  LET hasActivePlayer == b.isVideoPlayerActive \/ b.isAudioPlayerActive
      shouldBePlaying == b.state = "Playing"
  IN IF shouldBePlaying /\ ~hasActivePlayer
     THEN IF currentSong = None THEN b
          ELSE IF isVideoMode THEN activateVideoPlayer(b) ELSE activateAudioPlayer(b)
     ELSE IF ~shouldBePlaying /\ hasActivePlayer
     THEN deactivateAudioPlayer(deactivateVideoPlayer(b))
     ELSE b

\* stopAllPlayers() up to its await, or to its end when the audio flag is
\* clear; next names the command its caller invokes afterwards
stopAllPlayers(b, next_req, arg) ==
  LET b1 == deactivateVideoPlayer([b EXCEPT !.mutexLock = TRUE])
  IN IF b1.isAudioPlayerActive
     THEN [deactivateAudioPlayer(b1) EXCEPT
             !.calls = Append(@, Call("pause", arg, "stopped", next_req, FALSE))]
     ELSE [b1 EXCEPT !.timers = @ \cup {"unlockStop"},
                     !.calls = Append(@, Call(next_req, arg, "selected", "Audio", FALSE))]

\* play() with a song selected, up to its await (audio) or to its end (video)
Mutex_playBody(b) ==
  IF isVideoMode
  THEN IF b.mutexLock THEN b
       ELSE [activateVideoPlayer(b) EXCEPT !.state = "Playing"]
  ELSE IF b.mutexLock THEN b
       ELSE [activateAudioPlayer(b) EXCEPT
               !.calls = Append(@, Call("play", 0, "play", "Audio", FALSE))]

\* pause() up to its await
Mutex_pauseBody(b) ==
  [b EXCEPT !.calls = Append(@, Call("pause", 0, "pause", "Audio", FALSE))]

Mutex_play ==
  /\ currentIndex # None /\ Len(playlist) > 0
  /\ Put(Mutex_playBody(Here))
  /\ UNCHANGED <<mutexFrame, engineFrame, songFrame, currentPlaybackMode,
                 replies, watched>>

Mutex_play_return ==
  /\ replies # <<>> /\ Head(replies).then = "play"
  /\ replies' = Tail(replies)
  /\ Put([Here EXCEPT !.state = "Playing"])
  /\ UNCHANGED <<mutexFrame, engineFrame, songFrame, currentPlaybackMode, watched>>

Mutex_pause ==
  /\ Put(Mutex_pauseBody(Here))
  /\ UNCHANGED <<mutexFrame, engineFrame, songFrame, currentPlaybackMode,
                 replies, watched>>

Mutex_pause_return ==
  /\ replies # <<>> /\ Head(replies).then = "pause"
  /\ replies' = Tail(replies)
  /\ Put(deactivateAudioPlayer(deactivateVideoPlayer([Here EXCEPT !.state = "Paused"])))
  /\ UNCHANGED <<mutexFrame, engineFrame, songFrame, currentPlaybackMode, watched>>

Mutex_next ==
  /\ Put(stopAllPlayers(Here, "next", 0))
  /\ UNCHANGED <<mutexFrame, engineFrame, songFrame, currentPlaybackMode,
                 replies, watched>>

Mutex_previous ==
  /\ Put(stopAllPlayers(Here, "previous", 0))
  /\ UNCHANGED <<mutexFrame, engineFrame, songFrame, currentPlaybackMode,
                 replies, watched>>

Mutex_setCurrentSong(index) ==
  /\ index >= 0 /\ index < Len(playlist)
  /\ Put(stopAllPlayers(Here, "set_song", index))
  /\ UNCHANGED <<mutexFrame, engineFrame, songFrame, currentPlaybackMode,
                 replies, watched>>

\* stopAllPlayers() after its await: the 100 ms unlock timer, and the caller
\* invokes its command
stopAllPlayers_return ==
  /\ replies # <<>> /\ Head(replies).then = "stopped"
  /\ replies' = Tail(replies)
  /\ LET r == Head(replies) IN
       Put([Here EXCEPT !.timers = @ \cup {"unlockStop"},
                        !.calls = Append(@, Call(r.old, r.arg, "selected", "Audio", FALSE))])
  /\ UNCHANGED <<mutexFrame, engineFrame, songFrame, currentPlaybackMode, watched>>

\* next(), previous() and setCurrentSong(index) after invoke
Mutex_select_return ==
  /\ replies # <<>> /\ Head(replies).then = "selected"
  /\ replies' = Tail(replies)
  /\ LET r == Head(replies) IN
       /\ Put([Here EXCEPT !.state = "Playing"])
       /\ IF r.req = "set_song"
          THEN /\ currentIndex' = r.arg
               /\ SetProgress(ProgressRec)
          ELSE UNCHANGED songFrame
  /\ UNCHANGED <<mutexFrame, engineFrame, currentPlaybackMode, watched>>

\* setPlaybackMode(mode) up to its await; the mode buttons are shown for a song
\* with a companion video
Mutex_setPlaybackMode(m) ==
  /\ currentSong # None /\ HasMv(currentSong)
  /\ Put([Here EXCEPT
            !.calls = Append(@, Call("set_playback_mode", m, "mode",
                                     currentPlaybackMode, isPlaying))])
  /\ UNCHANGED <<mutexFrame, engineFrame, songFrame, currentPlaybackMode,
                 replies, watched>>

\* setPlaybackMode(mode) after invoke: the new mode, or the old one when the
\* command failed; from Video to Audio it sets Playing and waits 100 ms
Mutex_setPlaybackMode_return ==
  /\ replies # <<>> /\ Head(replies).then = "mode"
  /\ replies' = Tail(replies)
  /\ LET r == Head(replies) IN
       IF r.ok
       THEN /\ currentPlaybackMode' = r.arg
            /\ IF r.old = "Video" /\ r.arg = "Audio"
               THEN Put([Here EXCEPT !.state = "Playing",
                                     !.timers = @ \cup {"resume"}])
               ELSE IF r.old = "Audio" /\ r.arg = "Video" /\ r.was
               THEN Put([Here EXCEPT !.state = "Playing"])
               ELSE Put(Here)
       ELSE currentPlaybackMode' = r.old /\ Put(Here)
  /\ UNCHANGED <<mutexFrame, engineFrame, songFrame, watched>>

\* setPlaybackMode: the 100 ms have passed, invoke('play')
Mutex_setPlaybackMode_resume ==
  /\ "resume" \in mutexTimers
  /\ Put([Here EXCEPT !.timers = @ \ {"resume"},
                      !.calls = Append(@, Call("play", 0, "resumed", "Audio", FALSE))])
  /\ UNCHANGED <<mutexFrame, engineFrame, songFrame, currentPlaybackMode,
                 replies, watched>>

Mutex_setPlaybackMode_done ==
  /\ replies # <<>> /\ Head(replies).then = "resumed"
  /\ replies' = Tail(replies)
  /\ Put([Here EXCEPT !.state = "Playing"])
  /\ UNCHANGED <<mutexFrame, engineFrame, songFrame, currentPlaybackMode, watched>>

\* the timers of activateVideoPlayer (200 ms), activateAudioPlayer (100 ms) and
\* stopAllPlayers (100 ms) release the lock; the first two then schedule
\* checkPlaybackState
Unlock(timer) ==
  /\ timer \in mutexTimers
  /\ Put([Here EXCEPT !.mutexLock = FALSE,
                      !.timers = (@ \ {timer}) \cup
                                 (IF timer = "unlockStop" THEN {} ELSE {"check"})])
  /\ UNCHANGED <<mutexFrame, engineFrame, songFrame, currentPlaybackMode,
                 replies, watched>>

CheckTimer ==
  /\ "check" \in mutexTimers
  /\ Put(checkPlaybackState([Here EXCEPT !.timers = @ \ {"check"}]))
  /\ UNCHANGED <<mutexFrame, engineFrame, songFrame, currentPlaybackMode,
                 replies, watched>>

\* ---------------------------- engine behind the calls (from the specification)
PausePipeline ==
  IF player_state = "Playing"
  THEN player_state' = "Paused" /\ events' = events \o StateChanged("Paused")
  ELSE UNCHANGED <<player_state, events>>

\* the engine handles the oldest call
Engine_call ==
  /\ calls # <<>> /\ CanEmit(2) /\ Len(replies) < MaxCalls
  /\ LET c == Head(calls) IN
     \E ok \in (IF c.req = "set_playback_mode" THEN BOOLEAN ELSE {TRUE}) :
       /\ calls' = Tail(calls)
       /\ replies' = IF c.then = "none" THEN replies
                     ELSE Append(replies, [c EXCEPT !.ok = ok])
       /\ CASE c.req = "play" -> Resume /\ UNCHANGED playback_mode
            [] c.req = "pause" ->
                 PausePipeline /\ UNCHANGED <<current_index, playback_mode, sessionVars>>
            [] c.req = "next" ->
                 /\ Advance(SelectNext(play_mode, current_index, Len(engine_playlist)))
                 /\ UNCHANGED playback_mode
            [] c.req = "previous" ->
                 /\ Advance(SelectPrevious(play_mode, current_index, Len(engine_playlist)))
                 /\ UNCHANGED playback_mode
            [] c.req = "set_song" -> SelectTrack(c.arg) /\ UNCHANGED playback_mode
            [] c.req = "set_playback_mode" ->
                 /\ playback_mode' = IF ok THEN c.arg ELSE playback_mode
                 /\ UNCHANGED <<current_index, player_state, events, sessionVars>>
  /\ UNCHANGED <<mutexFrame, songFrame, state, currentPlaybackMode,
                 isVideoPlayerActive, isAudioPlayerActive, mutexLock, mutexTimers,
                 surface, heard, watched>>

\* ------------------------------ VideoPlayer variant that watches the flags
WatchedNow ==
  [isVideoPlayerActive |-> isVideoPlayerActive,
   isAudioPlayerActive |-> isAudioPlayerActive, isPlaying |-> isPlaying]

\* videoElement.play() and videoElement.pause(): the element fires play or
\* pause when its paused attribute changes
PlayElement(b) ==
  [b EXCEPT !.surface.paused = FALSE, !.surface.ended = FALSE,
            !.heard = IF b.surface.paused THEN @ \cup {"play"} ELSE @]
PauseElement(b) ==
  [b EXCEPT !.surface.paused = TRUE,
            !.heard = IF ~b.surface.paused THEN @ \cup {"pause"} ELSE @]

\* watch(isVideoPlayerActive)
watchVideoPlayerActive(b) ==
  IF ~b.isVideoPlayerActive /\ b.surface.isVideoPlaying
  THEN [PauseElement(b) EXCEPT !.surface.isVideoPlaying = FALSE]
  ELSE b

\* watch(isAudioPlayerActive)
watchAudioPlayerActive(b) ==
  IF b.isAudioPlayerActive /\ b.surface.isVideoPlaying
  THEN deactivateVideoPlayer([PauseElement(b) EXCEPT !.surface.isVideoPlaying = FALSE])
  ELSE b

\* watch(props.isPlaying), the first watcher; isVideoPlaying is set once the
\* promise of play() has resolved, with the play event
Mutex_watchIsPlaying(b) ==
  IF b.surface.isVideoIsolated \/ ~b.surface.isVideoLoaded THEN b
  ELSE IF b.state = "Playing" /\ ~b.surface.isVideoPlaying
  THEN IF b.mutexLock THEN b ELSE PlayElement(activateVideoPlayer(b))
  ELSE IF b.state # "Playing" /\ b.surface.isVideoPlaying
  THEN deactivateVideoPlayer([PauseElement(b) EXCEPT !.surface.isVideoPlaying = FALSE])
  ELSE b

\* executePlaybackControl(shouldPlay)
executePlaybackControl(b, shouldPlay) ==
  LET currentlyPlaying == ~b.surface.paused /\ ~b.surface.ended
  IN IF ~b.surface.isVideoLoaded THEN b
     ELSE IF shouldPlay /\ ~currentlyPlaying
     THEN IF ~b.isVideoPlayerActive
          THEN IF b.mutexLock THEN b ELSE PlayElement(activateVideoPlayer(b))
          ELSE PlayElement(b)
     ELSE IF ~shouldPlay /\ currentlyPlaying
     THEN deactivateVideoPlayer([PauseElement(b) EXCEPT !.surface.isVideoPlaying = FALSE])
     ELSE b

\* watch(props.isPlaying), the second watcher: while the video is isolated
\* it tries again after 500 ms, with the value it was called with
Mutex_watchIsPlaying_delayed(b) ==
  IF b.surface.isVideoIsolated
  THEN [b EXCEPT !.timers = @ \cup {IF b.state = "Playing" THEN "retryPlay"
                                                        ELSE "retryPause"}]
  ELSE executePlaybackControl(b, b.state = "Playing")

Mutex_RunWatchers(b) ==
  LET b1 == IF watched.isVideoPlayerActive # isVideoPlayerActive
            THEN watchVideoPlayerActive(b) ELSE b
      b2 == IF watched.isAudioPlayerActive # isAudioPlayerActive
            THEN watchAudioPlayerActive(b1) ELSE b1
  IN IF watched.isPlaying # isPlaying
     THEN Mutex_watchIsPlaying_delayed(Mutex_watchIsPlaying(b2))
     ELSE b2

Mutex_Dirty ==
  \/ shouldShowVideo # surface.mounted
  \/ (surface.mounted /\ watched # WatchedNow)

\* the render and the watchers run before any other task: the component is
\* created (its video starts loading) or destroyed with <VideoPlayer v-if>,
\* or its watchers run on what changed
Mutex_Flush ==
  /\ Mutex_Dirty
  /\ watched' = WatchedNow
  /\ IF shouldShowVideo # surface.mounted
     THEN IF shouldShowVideo
          THEN Put([Here EXCEPT !.surface = [NoSurface EXCEPT !.mounted = TRUE],
                                !.heard = {"loadeddata"}])
          ELSE Put([Here EXCEPT !.surface = NoSurface, !.heard = {}])
     ELSE Put(Mutex_RunWatchers(Here))
  /\ UNCHANGED <<mutexFrame, engineFrame, songFrame, currentPlaybackMode, replies>>

\* handleVideoLoaded: the video starts playing whatever the store's state is
Mutex_handleVideoLoaded ==
  /\ "loadeddata" \in heard
  /\ Put(PlayElement([Here EXCEPT !.heard = @ \ {"loadeddata"},
                                  !.surface.isVideoLoaded = TRUE,
                                  !.surface.isVideoIsolated = FALSE]))
  /\ UNCHANGED <<mutexFrame, engineFrame, songFrame, currentPlaybackMode,
                 replies, watched>>

\* handleVideoPlay, with the resolved promise of play()
Mutex_handleVideoPlay ==
  /\ "play" \in heard
  /\ LET b == [Here EXCEPT !.heard = @ \ {"play"}, !.surface.isVideoPlaying = TRUE]
     IN Put(IF ~isPlaying THEN Mutex_playBody(b) ELSE b)
  /\ UNCHANGED <<mutexFrame, engineFrame, songFrame, currentPlaybackMode,
                 replies, watched>>

Mutex_handleVideoPause ==
  /\ "pause" \in heard
  /\ LET b == [Here EXCEPT !.heard = @ \ {"pause"}, !.surface.isVideoPlaying = FALSE]
     IN Put(IF isPlaying THEN Mutex_pauseBody(b) ELSE b)
  /\ UNCHANGED <<mutexFrame, engineFrame, songFrame, currentPlaybackMode,
                 replies, watched>>

\* the controls of the <video> element: the user plays or pauses the video
VideoControls ==
  /\ surface.mounted /\ surface.isVideoLoaded
  /\ Put(IF surface.paused THEN PlayElement(Here) ELSE PauseElement(Here))
  /\ UNCHANGED <<mutexFrame, engineFrame, songFrame, currentPlaybackMode,
                 replies, watched>>

\* --------------------------------------- specification: audio/video mutex
MutexIdle ==
  /\ isVideoPlayerActive = FALSE /\ isAudioPlayerActive = FALSE
  /\ mutexLock = FALSE /\ mutexTimers = {}
  /\ calls = <<>> /\ replies = <<>>
  /\ surface = NoSurface /\ heard = {}
  /\ watched = [isVideoPlayerActive |-> FALSE, isAudioPlayerActive |-> FALSE,
                isPlaying |-> FALSE]

\* a track with a companion video was added, selected and paused
MutexInit ==
  /\ \E t \in {x \in Tracks : HasMv(x)} :
       /\ engine_playlist = <<t>> /\ playlist = <<t>>
       /\ duration = TrackDuration(t)
  /\ current_index = 0 /\ currentIndex = 0
  /\ player_state = "Paused" /\ state = "Paused"
  /\ play_mode = "Sequential" /\ playMode = "Sequential"
  /\ events = <<>> /\ cmd = Idle
  /\ position = 0 /\ isActuallyPlaying = FALSE /\ lastPosition = 0
  /\ positionUpdateCount = 0 /\ isNewSong = TRUE
  /\ playback_mode = "Audio" /\ engine_position = 0 /\ session = TRUE
  /\ currentPlaybackMode = "Audio" /\ isTransitioning = FALSE
  /\ seek = NoSeek /\ seekTimers = 0 /\ switch = NoSwitch
  /\ video = NoVideo /\ pending = {} /\ vtimers = {} /\ seen = Unwatched
  /\ MutexIdle
  /\ controls = NoControls
  /\ ops = 0

\* an event, timer or reply is handled once the render and watchers have run
Task(A) == ~Mutex_Dirty /\ A /\ UNCHANGED <<ops, controls>>

\* a command of the user
Command(A) ==
  ~Mutex_Dirty /\ ops < MaxOps /\ A /\ ops' = ops + 1 /\ UNCHANGED controls

\* an event of the engine reaches the listener
Heard(A) == ~Mutex_Dirty /\ A /\ UNCHANGED <<ops, mutexVars, controls>>

MutexNext ==
  \/ (Mutex_Flush /\ UNCHANGED <<ops, controls>>)
  \/ Command(Mutex_play) \/ Command(Mutex_pause)
  \/ Command(Mutex_next) \/ Command(Mutex_previous)
  \/ \E i \in 0..(MaxLen - 1) : Command(Mutex_setCurrentSong(i))
  \/ \E m \in MediaTypes : Command(Mutex_setPlaybackMode(m))
  \/ Command(VideoControls)
  \/ Task(Mutex_play_return) \/ Task(Mutex_pause_return)
  \/ Task(stopAllPlayers_return) \/ Task(Mutex_select_return)
  \/ Task(Mutex_setPlaybackMode_return) \/ Task(Mutex_setPlaybackMode_resume)
  \/ Task(Mutex_setPlaybackMode_done)
  \/ \E t \in {"unlockVideo", "unlockAudio", "unlockStop"} : Task(Unlock(t))
  \/ Task(CheckTimer)
  \/ Task(Engine_call)
  \/ Task(Mutex_handleVideoLoaded) \/ Task(Mutex_handleVideoPlay)
  \/ Task(Mutex_handleVideoPause)
  \/ Heard(OnStateChanged) \/ Heard(OnSongChanged)

MutexSpec == MutexInit /\ [][MutexNext]_vars

\* ------------------------------------- specification: mode switch and seek
\* the requested positions: in range and out of range
SeekTargets == {-1, 0, VideoDuration - 1, VideoDuration + 1}

\* a track with a companion video was added and selected, and is playing
AvInit ==
  /\ \E t \in {x \in Tracks : HasMv(x)} :
       /\ engine_playlist = <<t>> /\ playlist = <<t>>
       /\ duration = TrackDuration(t)
  /\ current_index = 0 /\ currentIndex = 0
  /\ player_state = "Playing" /\ state = "Playing"
  /\ play_mode = "Sequential" /\ playMode = "Sequential"
  /\ events = <<>> /\ cmd = Idle
  /\ position = 0 /\ isActuallyPlaying = FALSE /\ lastPosition = 0
  /\ positionUpdateCount = 0 /\ isNewSong = TRUE
  /\ playback_mode = "Audio" /\ engine_position = 0 /\ session = TRUE
  /\ currentPlaybackMode = "Audio" /\ isTransitioning = FALSE
  /\ seek = NoSeek /\ seekTimers = 0 /\ switch = NoSwitch
  /\ video = NoVideo /\ pending = {} /\ vtimers = {} /\ seen = Unwatched
  /\ MutexIdle
  /\ controls = NoControls
  /\ ops = 0

\* an event, timer or reply is handled once the render and watchers have run
Quiet(A) == ~Dirty /\ A /\ UNCHANGED <<ops, mutexVars, controls>>

\* a command of the user
User(A) ==
  ~Dirty /\ ops < MaxOps /\ A /\ ops' = ops + 1 /\ UNCHANGED <<mutexVars, controls>>

AvNext ==
  \/ (Flush /\ UNCHANGED <<ops, mutexVars, controls>>)
  \/ \E p \in SeekTargets : User(seekTo(p))
  \/ Quiet(seekTo_return) \/ Quiet(seekTo_timeout) \/ Quiet(Engine_seek_to)
  \/ \E m \in MediaTypes : User(setPlaybackMode(m))
  \/ Quiet(setPlaybackMode_return) \/ Quiet(setPlaybackMode_resume)
  \/ Quiet(setPlaybackMode_done)
  \/ Quiet(Engine_set_playback_mode) \/ Quiet(Engine_play_switched)
  \/ Quiet(Tick) \/ Quiet(OnProgressUpdate)
  \/ Quiet(handleVideoLoadedMetadata) \/ Quiet(handleVideoLoaded)
  \/ Quiet(handleTimeUpdate) \/ Quiet(handleVideoPlay)
  \/ Quiet(handleVideoSeek) \/ Quiet(handleVideoSeek_update)
  \/ Quiet(handleVideoSeek_release) \/ Quiet(watchPosition_release)

AvSpec == AvInit /\ [][AvNext]_vars

\* what happens without the user: the engine handles the commands it has
\* received and its ticker runs, replies and events reach the store, timers
\* fire, the component renders, the <video> element raises its events
AvSystem ==
  \/ (Flush /\ UNCHANGED <<ops, mutexVars, controls>>)
  \/ Quiet(seekTo_return) \/ Quiet(seekTo_timeout) \/ Quiet(Engine_seek_to)
  \/ Quiet(setPlaybackMode_return) \/ Quiet(setPlaybackMode_resume)
  \/ Quiet(setPlaybackMode_done)
  \/ Quiet(Engine_set_playback_mode) \/ Quiet(Engine_play_switched)
  \/ Quiet(Tick) \/ Quiet(OnProgressUpdate)
  \/ Quiet(handleVideoLoadedMetadata) \/ Quiet(handleVideoLoaded)
  \/ Quiet(handleTimeUpdate) \/ Quiet(handleVideoPlay)
  \/ Quiet(handleVideoSeek) \/ Quiet(handleVideoSeek_update)
  \/ Quiet(handleVideoSeek_release) \/ Quiet(watchPosition_release)

\* AvSpec with an engine, an event loop and timers that keep running
AvFairSpec == AvInit /\ [][AvNext]_vars /\ WF_vars(AvSystem)

\* ------------------------------------------------------------ specification
Init ==
  /\ engine_playlist = <<>> /\ current_index = None
  /\ player_state = "Stopped" /\ play_mode = "Sequential"
  /\ events = <<>>
  /\ state = "Stopped" /\ playlist = <<>> /\ currentIndex = None
  /\ playMode = "Sequential"
  /\ position = 0 /\ duration = 0
  /\ isActuallyPlaying = FALSE /\ lastPosition = 0
  /\ positionUpdateCount = 0 /\ isNewSong = FALSE
  /\ cmd = Idle
  /\ playback_mode = "Audio" /\ engine_position = 0 /\ session = FALSE
  /\ currentPlaybackMode = "Audio" /\ isTransitioning = FALSE
  /\ seek = NoSeek /\ seekTimers = 0 /\ switch = NoSwitch
  /\ video = NoVideo /\ pending = {} /\ vtimers = {} /\ seen = Unwatched
  /\ MutexIdle
  /\ controls = NoControls
  /\ ops = 0

Do(A) == A /\ UNCHANGED <<ops, mutexVars, controls>>

Next ==
  \/ Do(play) \/ Do(play_selected) \/ Do(play_return)
  \/ Do(pause) \/ Do(pause_return)
  \/ Do(next) \/ Do(next_return)
  \/ Do(previous) \/ Do(previous_return)
  \/ \E i \in 0..MaxLen : Do(setCurrentSong(i))
  \/ Do(setCurrentSong_return)
  \/ \E t \in Tracks : Do(addSong(t))
  \/ Do(addSong_return)
  \/ \E i \in 0..(Len(playlist) - 1) : Do(removeSong(i))
  \/ Do(removeSong_return)
  \/ Do(clearPlaylist) \/ Do(clearPlaylist_return)
  \/ Do(handleClearPlaylist) \/ Do(handleClearPlaylist_return)
  \/ \E m \in 1..3 : Do(setPlayMode(m))
  \/ Do(setPlayMode_return)
  \/ Do(Engine_play) \/ Do(Engine_pause) \/ Do(Engine_next) \/ Do(Engine_previous)
  \/ Do(Engine_set_song) \/ Do(Engine_add_song) \/ Do(Engine_remove_song)
  \/ Do(Engine_clear_playlist) \/ Do(Engine_set_play_mode)
  \/ Do(EndOfTrack)
  \/ Do(OnStateChanged) \/ Do(OnSongChanged) \/ Do(OnPlaylistUpdated)
  \/ Do(Settle)

Spec == Init /\ [][Next]_vars

\* ------------------------------------- transport: stop, faults, progress
Error(kind) == <<[type |-> "Error", message |-> kind]>>

\* a faulty stop(): the state is Stopped, the session stays open
Engine_stop_KeepsSession ==
  /\ Received("stop") /\ CanEmit(1)
  /\ player_state' = "Stopped"
  /\ events' = events \o StateChanged("Stopped")
  /\ Reply(TRUE)
  /\ UNCHANGED <<engine_playlist, current_index, play_mode, storeVars, avVars>>

\* stop(): Stopped from any state, the active session is released
Engine_stop ==
  /\ Received("stop") /\ CanEmit(1)
  /\ player_state' = "Stopped"
  /\ events' = events \o StateChanged("Stopped")
  /\ session' = FALSE /\ engine_position' = 0
  /\ Reply(TRUE)
  /\ UNCHANGED <<engine_playlist, current_index, play_mode, storeVars, avRest>>

\* a faulty recovery: the engine skips to the next track after a decode error
DecodeError_Skips ==
  /\ player_state = "Playing" /\ current_index # None /\ session /\ CanEmit(2)
  /\ current_index' = (current_index + 1) % Len(engine_playlist)
  /\ events' = events \o Error("DecodeError")
  /\ UNCHANGED <<engine_playlist, player_state, play_mode, storeVars, cmd, avVars>>

\* the stream of the playing track is corrupt: Paused, an Error event, the
\* index stays
DecodeError ==
  /\ player_state = "Playing" /\ current_index # None /\ session /\ CanEmit(2)
  /\ player_state' = "Paused"
  /\ events' = events \o StateChanged("Paused") \o Error("DecodeError")
  /\ UNCHANGED <<engine_playlist, current_index, play_mode, storeVars, cmd, avVars>>

\* play() has to open the current track and the file is missing: Paused, an
\* Error event, the index stays, the command is rejected
Engine_play_fails ==
  /\ Received("play") /\ CanEmit(2)
  /\ current_index # None /\ ~session
  /\ player_state' = "Paused"
  /\ events' = events \o StateChanged("Paused") \o Error("FileNotFound")
  /\ Reply(FALSE)
  /\ UNCHANGED <<engine_playlist, current_index, play_mode, storeVars, avVars>>

\* the pipeline reaches the end of the current track
TrackEnded ==
  /\ current_index # None
  /\ engine_position = TrackDuration(engine_playlist[current_index + 1])
  /\ EndOfTrack

\* stop() of the store: up to its await, and after it
stop ==
  /\ cmd = Idle
  /\ cmd' = Invoke("stop", "stop", 0)
  /\ UNCHANGED <<engineVars, events, storeVars, avVars>>

stop_return ==
  /\ cmd.op = "stop" /\ cmd.pc \in {"ok", "err"}
  /\ IF cmd.pc = "ok"
     THEN state' = "Stopped" /\ cmd' = Idle
     ELSE UNCHANGED state /\ cmd' = Idle
  /\ UNCHANGED <<engineVars, events, playlist, currentIndex, playMode, progressVars, avVars>>

\* play() of the store with the mutex, its catch: the rejected invoke('play')
\* leaves both players inactive and the state Paused
play_catch ==
  /\ Returned("play", "play", "err")
  /\ ~isVideoPlayerActive /\ ~isAudioPlayerActive
  /\ state' = "Paused" /\ cmd' = Idle
  /\ UNCHANGED <<engineVars, events, playlist, currentIndex, playMode, progressVars, avVars>>

\* player-event listener: Error is written to the console
OnError ==
  /\ events # <<>> /\ Head(events).type = "Error"
  /\ events' = Tail(events)
  /\ UNCHANGED <<engineVars, storeVars, cmd, avVars>>

\* two tracks were added, nothing is selected
PlayInit ==
  /\ \E a, b \in Tracks :
       /\ a # b
       /\ engine_playlist = <<a, b>> /\ playlist = <<a, b>>
  /\ current_index = None /\ currentIndex = None
  /\ player_state = "Stopped" /\ state = "Stopped"
  /\ \E m \in {"Sequential", "Repeat"} : play_mode = m /\ playMode = m
  /\ events = <<>> /\ cmd = Idle
  /\ position = 0 /\ duration = 0
  /\ isActuallyPlaying = FALSE /\ lastPosition = 0
  /\ positionUpdateCount = 0 /\ isNewSong = FALSE
  /\ playback_mode = "Audio" /\ engine_position = 0 /\ session = FALSE
  /\ currentPlaybackMode = "Audio" /\ isTransitioning = FALSE
  /\ seek = NoSeek /\ seekTimers = 0 /\ switch = NoSwitch
  /\ video = NoVideo /\ pending = {} /\ vtimers = {} /\ seen = Unwatched
  /\ MutexIdle
  /\ controls = NoControls
  /\ ops = 0

PlayNext ==
  \/ Do(play) \/ Do(play_selected) \/ Do(play_return) \/ Do(play_catch)
  \/ Do(pause) \/ Do(pause_return)
  \/ Do(stop) \/ Do(stop_return)
  \/ Do(next) \/ Do(next_return)
  \/ Do(previous) \/ Do(previous_return)
  \/ Do(Engine_play) \/ Do(Engine_play_fails) \/ Do(Engine_pause)
  \/ Do(Engine_stop) \/ Do(Engine_next) \/ Do(Engine_previous)
  \/ Do(Engine_set_song)
  \/ Do(Tick) \/ Do(TrackEnded) \/ Do(DecodeError)
  \/ Do(OnStateChanged) \/ Do(OnSongChanged) \/ Do(OnProgressUpdate)
  \/ Do(OnError)

PlaySpec == PlayInit /\ [][PlayNext]_vars

\* ------------------------- VideoPlayer variant: seek, isolation, end of video
\* the user moves the slider of the <video> controls; the element fires seeked
VideoControls_seek ==
  /\ surface.mounted /\ surface.isVideoLoaded
  /\ Put([Here EXCEPT !.surface.ended = FALSE, !.heard = @ \cup {"seeked"}])
  /\ UNCHANGED <<mutexFrame, engineFrame, songFrame, currentPlaybackMode,
                 replies, watched>>

\* handleVideoSeek: "recentSeek" is pending while less than 800 ms have passed
\* since lastVideoSeekTime; the video's metadata is known once it is loaded,
\* and the slider was left one second before the end
Mutex_handleVideoSeek ==
  /\ "seeked" \in heard
  /\ LET b == [Here EXCEPT !.heard = @ \ {"seeked"}] IN
       IF "recentSeek" \in mutexTimers
       THEN /\ Put([b EXCEPT !.surface.isVideoIsolated = TRUE,
                             !.timers = @ \cup {"unisolateFrequent"}])
            /\ UNCHANGED progressVars
       ELSE IF surface.isVideoLoaded
       THEN /\ Put([b EXCEPT !.surface.isVideoIsolated = TRUE,
                             !.timers = @ \cup {"recentSeek", "seekCheck"}])
            /\ \E late \in BOOLEAN :
                 SetProgress(updateProgress(ProgressRec, VideoDuration - 1,
                                            VideoDuration, late))
       ELSE /\ Put([b EXCEPT !.timers = @ \cup {"recentSeek"}])
            /\ UNCHANGED progressVars
  /\ UNCHANGED <<mutexFrame, engineFrame, currentIndex, currentPlaybackMode,
                 replies, watched>>

\* 800 ms have passed since the last seek that was handled
SeekAged ==
  /\ "recentSeek" \in mutexTimers
  /\ Put([Here EXCEPT !.timers = @ \ {"recentSeek"}])
  /\ UNCHANGED <<mutexFrame, engineFrame, songFrame, currentPlaybackMode,
                 replies, watched>>

\* handleVideoSeek, 300 ms later: the store is made to follow the element
Mutex_handleVideoSeek_check ==
  /\ "seekCheck" \in mutexTimers
  /\ LET b == [Here EXCEPT !.timers = (@ \ {"seekCheck"}) \cup {"unisolate"}]
         isVideoActuallyPlaying == ~surface.paused /\ ~surface.ended
         b1 == IF ~surface.mounted THEN b
               ELSE [(IF isVideoActuallyPlaying /\ ~isPlaying
                      THEN IF currentIndex # None /\ Len(playlist) > 0
                           THEN Mutex_playBody(b) ELSE b
                      ELSE IF ~isVideoActuallyPlaying /\ isPlaying
                      THEN Mutex_pauseBody(b)
                      ELSE b)
                     EXCEPT !.surface.isVideoPlaying = isVideoActuallyPlaying]
     IN Put(b1)
  /\ UNCHANGED <<mutexFrame, engineFrame, songFrame, currentPlaybackMode,
                 replies, watched>>

\* the timers that end the isolation: 1000 ms after the check, or 1500 ms
\* after a seek that came too soon
Isolation_release(timer) ==
  /\ timer \in mutexTimers
  /\ Put([Here EXCEPT !.timers = @ \ {timer},
                      !.surface.isVideoIsolated = FALSE])
  /\ UNCHANGED <<mutexFrame, engineFrame, songFrame, currentPlaybackMode,
                 replies, watched>>

\* the second watcher of isPlaying, 500 ms later
Mutex_watchIsPlaying_retry(timer) ==
  /\ timer \in mutexTimers
  /\ LET b == [Here EXCEPT !.timers = @ \ {timer}] IN
       Put(IF ~surface.isVideoIsolated
           THEN executePlaybackControl(b, timer = "retryPlay") ELSE b)
  /\ UNCHANGED <<mutexFrame, engineFrame, songFrame, currentPlaybackMode,
                 replies, watched>>

\* the video reaches its end while it plays: the element fires ended
VideoEnds ==
  /\ surface.mounted /\ surface.isVideoLoaded
  /\ ~surface.paused /\ ~surface.ended
  /\ Put([Here EXCEPT !.surface.ended = TRUE, !.heard = @ \cup {"ended"}])
  /\ UNCHANGED <<mutexFrame, engineFrame, songFrame, currentPlaybackMode,
                 replies, watched>>

\* handleVideoEnded: next(), unless the video is isolated
Mutex_handleVideoEnded ==
  /\ "ended" \in heard
  /\ LET b == [Here EXCEPT !.heard = @ \ {"ended"},
                           !.surface.isVideoPlaying = FALSE]
     IN Put(IF ~surface.isVideoIsolated THEN stopAllPlayers(b, "next", 0) ELSE b)
  /\ UNCHANGED <<mutexFrame, engineFrame, songFrame, currentPlaybackMode,
                 replies, watched>>

\* ------------------------------------------- specification: end of the video
\* the seeks of the user with the controls of the <video> element
MaxSeeks == 2

\* two tracks, the current one with a companion video, Playing in Video mode;
\* the VideoPlayer has just been created and its video is loading
EndInit ==
  /\ \E t \in {x \in Tracks : HasMv(x)}, u \in {x \in Tracks : ~HasMv(x)},
        i \in {0, 1} :
       /\ engine_playlist = (IF i = 0 THEN <<t, u>> ELSE <<u, t>>)
       /\ playlist = engine_playlist
       /\ current_index = i /\ currentIndex = i
       /\ duration = TrackDuration(t)
  /\ player_state = "Playing" /\ state = "Playing"
  /\ play_mode = "Sequential" /\ playMode = "Sequential"
  /\ events = <<>> /\ cmd = Idle
  /\ position = 0 /\ isActuallyPlaying = FALSE /\ lastPosition = 0
  /\ positionUpdateCount = 0 /\ isNewSong = TRUE
  /\ playback_mode = "Video" /\ engine_position = 0 /\ session = TRUE
  /\ currentPlaybackMode = "Video" /\ isTransitioning = FALSE
  /\ seek = NoSeek /\ seekTimers = 0 /\ switch = NoSwitch
  /\ video = NoVideo /\ pending = {} /\ vtimers = {} /\ seen = Unwatched
  /\ isVideoPlayerActive = TRUE /\ isAudioPlayerActive = FALSE
  /\ mutexLock = FALSE /\ mutexTimers = {}
  /\ calls = <<>> /\ replies = <<>>
  /\ surface = [NoSurface EXCEPT !.mounted = TRUE] /\ heard = {"loadeddata"}
  /\ watched = [isVideoPlayerActive |-> TRUE, isAudioPlayerActive |-> FALSE,
                isPlaying |-> TRUE]
  /\ controls = NoControls
  /\ ops = 0

\* the handlers of the events the <video> element has fired run before any
\* timer of 100 ms or more, any reply of the engine and any further input
Later(A) == heard = {} /\ Task(A)

EndNext ==
  \/ (Mutex_Flush /\ UNCHANGED <<ops, controls>>)
  \/ (heard = {} /\ ops < MaxSeeks /\ Command(VideoControls_seek))
  \/ Task(Mutex_handleVideoSeek) \/ Later(SeekAged)
  \/ Later(Mutex_handleVideoSeek_check)
  \/ \E t \in {"unisolate", "unisolateFrequent"} : Later(Isolation_release(t))
  \/ \E t \in {"retryPlay", "retryPause"} : Later(Mutex_watchIsPlaying_retry(t))
  \/ Later(VideoEnds) \/ Task(Mutex_handleVideoEnded)
  \/ Task(Mutex_handleVideoLoaded) \/ Task(Mutex_handleVideoPlay)
  \/ Task(Mutex_handleVideoPause)
  \/ Later(Mutex_pause_return) \/ Later(Mutex_select_return)
  \/ \E t \in {"unlockVideo", "unlockAudio", "unlockStop"} : Later(Unlock(t))
  \/ Later(CheckTimer)
  \/ Later(Engine_call)
  \/ (heard = {} /\ Heard(OnStateChanged))
  \/ (heard = {} /\ Heard(OnSongChanged))

EndSpec == EndInit /\ [][EndNext]_vars

\* -------------------------- specification: play and pause in video mode
\* a track with a companion video is Playing in Video mode and the VideoPlayer
\* has just been mounted: its video is loading
SyncInit ==
  /\ \E t \in {x \in Tracks : HasMv(x)} :
       /\ engine_playlist = <<t>> /\ playlist = <<t>>
       /\ duration = TrackDuration(t)
  /\ current_index = 0 /\ currentIndex = 0
  /\ player_state = "Playing" /\ state = "Playing"
  /\ play_mode = "Sequential" /\ playMode = "Sequential"
  /\ events = <<>> /\ cmd = Idle
  /\ position = 0 /\ isActuallyPlaying = FALSE /\ lastPosition = 0
  /\ positionUpdateCount = 0 /\ isNewSong = TRUE
  /\ playback_mode = "Video" /\ engine_position = 0 /\ session = TRUE
  /\ currentPlaybackMode = "Video" /\ isTransitioning = FALSE
  /\ seek = NoSeek /\ seekTimers = 0 /\ switch = NoSwitch
  /\ video = Mounted /\ pending = {} /\ vtimers = {}
  /\ seen = [isPlaying |-> TRUE, position |-> 0, mode |-> "Video"]
  /\ MutexIdle
  /\ controls = NoControls
  /\ ops = 0

\* handlePlayPause of PlayerControls: pause when playing, play otherwise
SyncNext ==
  \/ (Flush /\ UNCHANGED <<ops, mutexVars, controls>>)
  \/ User(isPlaying /\ pause) \/ User(~isPlaying /\ play)
  \/ Quiet(pause_return) \/ Quiet(play_return)
  \/ Quiet(Engine_pause) \/ Quiet(Engine_play)
  \/ Quiet(OnStateChanged)
  \/ Quiet(handleVideoLoadedMetadata) \/ Quiet(handleVideoLoaded)
  \/ Quiet(handleTimeUpdate)
  \/ Quiet(handleVideoPlay) \/ Quiet(handleVideoPause)

SyncSpec == SyncInit /\ [][SyncNext]_vars

\* ------------------------------------- specification: progress of the store
\* the positions and durations reported: every second up to the longest track
ProgressValues == 0..TrackDuration(NumTracks)

\* a call of the store's updateProgress(pos, dur)
Store_updateProgress(pos, dur) ==
  /\ \E late \in BOOLEAN :
       SetProgress(updateProgress(ProgressRec, pos, dur, late))
  /\ UNCHANGED <<engineVars, events, state, playlist, currentIndex, playMode,
                 cmd, avVars, mutexVars, controls, ops>>

\* a call of the store's updateCurrentSong(index)
Store_updateCurrentSong(index) ==
  /\ SetProgress(updateCurrentSong(ProgressRec, index))
  /\ currentIndex' = index
  /\ UNCHANGED <<engineVars, events, state, playlist, playMode,
                 cmd, avVars, mutexVars, controls, ops>>

ProgressNext ==
  \/ \E pos \in ProgressValues, dur \in ProgressValues :
       Store_updateProgress(pos, dur)
  \/ \E i \in 0..(MaxLen - 1) : Store_updateCurrentSong(i)

\* from the store as it is constructed
ProgressSpec == Init /\ [][ProgressNext]_vars

\* ------------------------------------------- PlayerControls component
\* progress.value: the percentage of the bar, in whole percent
Percent(pos, dur) == IF dur > 0 THEN (pos * 100) \div dur ELSE 0

Show(c, pos, dur) ==
  [c EXCEPT !.position = pos, !.duration = dur, !.progress = Percent(pos, dur)]

\* the player-event listener of PlayerControls: nothing while isUserJumping
Controls_listen(c, ev) ==
  IF c.isUserJumping THEN c
  ELSE IF ev.type = "ProgressUpdate" THEN Show(c, ev.position, ev.duration)
  ELSE IF ev.type = "SongChanged" THEN Show(c, 0, TrackDuration(ev.track))
  ELSE c

\* watch([playerStore.position, playerStore.duration]), then
\* watch(props.currentSong), run after a task has changed the store
Controls_watch(c) ==
  LET c1 == IF (position' # position \/ duration' # duration) /\ ~c.isUserJumping
            THEN Show(c, position', duration') ELSE c
  IN IF currentSong' # None /\ (currentSong = None \/ currentSong' # currentSong)
     THEN Show(c1, 0, TrackDuration(currentSong'))
     ELSE c1

\* a step of the engine or of the store, seen by the watchers of PlayerControls
Shown(A) == A /\ controls' = Controls_watch(controls) /\ UNCHANGED <<ops, mutexVars>>

\* an event handled by the listener of the App and by the one of PlayerControls
Listened(A) ==
  /\ A
  /\ controls' = Controls_watch(Controls_listen(controls, Head(events)))
  /\ UNCHANGED <<ops, mutexVars>>

\* handleProgressClick: a click on the bar at second p
handleProgressClick(p) ==
  /\ controls.duration > 0 /\ currentSong # None
  /\ p \in 0..controls.duration
  /\ ops < MaxOps /\ controls.timers < MaxTimers
  /\ seekTo(p)
  /\ controls' = [Show(controls, p, controls.duration)
                    EXCEPT !.isUserJumping = TRUE, !.timers = @ + 1]
  /\ ops' = ops + 1
  /\ UNCHANGED mutexVars

\* the 1500 ms timer of handleProgressClick fires
Controls_release ==
  /\ controls.timers > 0
  /\ controls' = [controls EXCEPT !.isUserJumping = FALSE, !.timers = @ - 1]
  /\ UNCHANGED <<engineVars, events, storeVars, cmd, avVars, mutexVars, ops>>

\* a track of two is playing in Audio mode and shown by the controls
ControlsInit ==
  /\ \E a, b \in Tracks :
       /\ a # b
       /\ engine_playlist = <<a, b>> /\ playlist = <<a, b>>
       /\ duration = TrackDuration(a)
       /\ controls = Show(NoControls, 0, TrackDuration(a))
  /\ current_index = 0 /\ currentIndex = 0
  /\ player_state = "Playing" /\ state = "Playing"
  /\ \E m \in {"Sequential", "Repeat"} : play_mode = m /\ playMode = m
  /\ events = <<>> /\ cmd = Idle
  /\ position = 0
  /\ isActuallyPlaying = FALSE /\ lastPosition = 0
  /\ positionUpdateCount = 0 /\ isNewSong = TRUE
  /\ playback_mode = "Audio" /\ engine_position = 0 /\ session = TRUE
  /\ currentPlaybackMode = "Audio" /\ isTransitioning = FALSE
  /\ seek = NoSeek /\ seekTimers = 0 /\ switch = NoSwitch
  /\ video = NoVideo /\ pending = {} /\ vtimers = {} /\ seen = Unwatched
  /\ MutexIdle
  /\ ops = 0

\* the seconds of the bar the user clicks at
ClickTargets == {1, TrackDuration(1)}

ControlsNext ==
  \/ \E p \in ClickTargets : handleProgressClick(p)
  \/ Controls_release
  \/ Shown(seekTo_return) \/ Shown(seekTo_timeout) \/ Shown(Engine_seek_to)
  \/ Shown(next) \/ Shown(next_return) \/ Shown(Engine_next)
  \/ Shown(Tick) \/ Shown(TrackEnded)
  \/ Listened(OnStateChanged) \/ Listened(OnSongChanged)
  \/ Listened(OnProgressUpdate)

ControlsSpec == ControlsInit /\ [][ControlsNext]_vars

\* ------------------------------------------------------------------ claims
Quiescent == cmd = Idle /\ events = <<>>

InRange(i, list) == i = None \/ (i >= 0 /\ i < Len(list))

\* the audio pipeline of the engine is producing sound; the <video> element of
\* the component is playing
AudioTransportPlaying == player_state = "Playing" /\ playback_mode = "Audio"
VideoTransportPlaying == surface.mounted /\ ~surface.paused

\* C1 (as claimed): in every reachable state the audio transport and the video
\* transport are not both playing, and the store flags isAudioPlayerActive and
\* isVideoPlayerActive are not both true.
C1_AtMostOneTransport ==
  /\ ~(AudioTransportPlaying /\ VideoTransportPlaying)
  /\ ~(isAudioPlayerActive /\ isVideoPlayerActive)

\* C1, the flags alone
C1_FlagsExclusive == ~(isAudioPlayerActive /\ isVideoPlayerActive)

\* C3 (as claimed): once every command has returned and every event has been
\* handled, the store's currentIndex is null or an index of the store's playlist.
C3_CurrentIndexInRange == Quiescent => InRange(currentIndex, playlist)

C7_PlayFromStopped ==
  [][/\ (cmd = Idle /\ cmd'.op = "play" /\ Len(playlist) = 0)
          => (cmd'.pc = "noop" /\ UNCHANGED <<engineVars, events, storeVars>>)
     /\ (cmd = Idle /\ cmd'.op = "play" /\ currentIndex = None /\ Len(playlist) > 0)
          => (cmd'.req = "set_song" /\ cmd'.arg = 0 /\ cmd'.pc = "invoked")
     /\ (cmd.op = "play" /\ cmd.req = "set_song" /\ cmd.pc = "ok" /\ cmd' # cmd)
          => (currentIndex' = 0 /\ state' = "Playing")
     /\ (Received("play") /\ current_index = None /\ cmd'.pc = "ok")
          => IF Len(engine_playlist) = 0
             THEN UNCHANGED <<engineVars, events>>
             ELSE current_index' = 0 /\ player_state' = "Playing"]_vars

\* C7 witness: play() returned without invoking, on an empty playlist
C7_Witness ==
  /\ cmd.op = "play" /\ cmd.pc = "noop"
  /\ state = "Stopped" /\ currentIndex = None /\ Len(playlist) = 0

\* C8 (as claimed): when next() returns after the engine stopped at the end of
\* the playlist in Sequential mode, the store's state does not remain Playing.
C8_StopsAtEndOfPlaylist ==
  [][(cmd.op = "next" /\ cmd.pc = "ok" /\ cmd' = Idle /\ events = <<>>
      /\ play_mode = "Sequential" /\ player_state = "Stopped"
      /\ current_index # None /\ current_index = Len(engine_playlist) - 1)
       => state' # "Playing"]_vars

\* C9: in Shuffle mode with more than one track, the index selected by next(),
\* previous() or the end of the track is in [0, len) and is not the current one.
C9_ShuffleNeverRepeats ==
  [][((Engine_next \/ Engine_previous \/ EndOfTrack)
      /\ play_mode = "Shuffle" /\ Len(engine_playlist) > 1 /\ current_index # None)
       => /\ current_index' \in 0..(Len(engine_playlist) - 1)
          /\ current_index' # current_index]_vars

\* C9 witness: next() or previous() has selected in Shuffle mode, two tracks or more
C9_Witness ==
  /\ play_mode = "Shuffle" /\ Len(engine_playlist) > 1 /\ current_index # None
  /\ cmd.req \in {"next", "previous"} /\ cmd.pc = "ok"

\* C10: in Shuffle mode on a one-track playlist every next() selects index 0.
C10_ShuffleSingleTrack ==
  [][(Engine_next /\ play_mode = "Shuffle" /\ Len(engine_playlist) = 1
      /\ current_index # None)
       => /\ current_index' = 0 /\ player_state' = "Playing"
          /\ \E k \in 1..Len(events') :
               events'[k].type = "SongChanged" /\ events'[k].index = 0]_vars

\* C10 witness: next() has selected in Shuffle mode on a one-track playlist
C10_Witness ==
  /\ play_mode = "Shuffle" /\ Len(engine_playlist) = 1 /\ current_index = 0
  /\ cmd.req = "next" /\ cmd.pc = "ok" /\ player_state = "Playing"

\* the engine is in Audio mode and no switch is before the end of its 200 ms wait
SwitchedToAudio ==
  playback_mode = "Audio" /\ switch.pc \in {"idle", "play_invoked", "play_ok"}

\* a position report of the video is applied to the store
VideoReport ==
  \/ handleVideoLoadedMetadata
  \/ (handleTimeUpdate /\ video.isVideoLoaded /\ video.isVideoPlaying
        /\ ~video.isUserSeeking)
  \/ (handleVideoSeek_update /\ Abs(video.currentTime - video.seekTime) < 1)

C4_SeekPositionClamped ==
  [][(\E p \in SeekTargets : seekTo(p))
       => (position' >= 0 /\ position' <= duration')]_vars

\* a switch from Video to Audio has been issued and has not completed
SwitchToAudioInFlight ==
  switch.pc # "idle" /\ switch.oldMode = "Video" /\ switch.target = "Audio"

\* C5 (as claimed): a seekTo requested while a switch from Video to Audio is
\* in flight is passed on to the audio pipeline: seek_to is invoked for it.
C5_SeekDuringSwitch ==
  [][(SwitchToAudioInFlight /\ \E p \in SeekTargets : seekTo(p))
       => (seek'.pc = "invoked" /\ seek'.target = position')]_vars

\* C11: in Repeat mode next(), previous() and the natural end of a track leave
\* current_index as it was, whatever the playlist and the index.
C11_RepeatKeepsIndex ==
  [][((Engine_next \/ Engine_previous \/ EndOfTrack) /\ play_mode = "Repeat")
       => current_index' = current_index]_vars

\* C11 witness: the engine has handled next() or previous() in Repeat mode on
\* a playlist of two tracks with a track selected
C11_Witness ==
  /\ play_mode = "Repeat" /\ cmd.req \in {"next", "previous"} /\ cmd.pc = "ok"
  /\ current_index # None /\ Len(engine_playlist) = MaxLen
  /\ player_state = "Playing"

\* C12: in Sequential mode previous() selects current - 1 when current >= 1 and
\* stays at index 0 when current is 0: it neither wraps nor clears the index.
C12_SequentialPrevious ==
  [][(Engine_previous /\ play_mode = "Sequential" /\ current_index # None)
       => current_index' = (IF current_index >= 1 THEN current_index - 1 ELSE 0)]_vars

\* C12 witness: the engine has handled previous() in Sequential mode and the
\* first of two tracks is selected
C12_Witness ==
  /\ play_mode = "Sequential" /\ cmd.req = "previous" /\ cmd.pc = "ok"
  /\ current_index = 0 /\ Len(engine_playlist) = MaxLen
  /\ player_state = "Playing"

\* what a resume must not disturb: the position of the pipeline and of the
\* store, the selected track and its duration
resumeFrame == <<engine_position, position, duration, currentIndex, current_index>>

\* C13: pause() followed by play() resumes without re-seeking. No step of
\* pause() or of the play() that resumes changes the position, the duration or
\* the current index, in the engine or in the store; the position of the
\* pipeline stands still while the engine stays Paused; and the position the
\* store shows moves meanwhile only by an event emitted before the pause.
C13_ResumeWithoutSeek ==
  [][/\ (pause \/ pause_return \/ Engine_pause) => UNCHANGED resumeFrame
     /\ ((play \/ play_return \/ Engine_play) /\ player_state = "Paused")
          => UNCHANGED resumeFrame
     /\ (player_state = "Paused" /\ player_state' = "Paused")
          => engine_position' = engine_position
     /\ (player_state = "Paused" /\ position' # position)
          => /\ events # <<>> /\ events' = Tail(events)
             /\ Head(events).type \in {"ProgressUpdate", "SongChanged"}]_vars

\* C13 witness: the engine has resumed a track paused after its first tick,
\* the store still shows Paused
C13_Witness ==
  /\ Returned("play", "play", "ok") /\ state = "Paused"
  /\ player_state = "Playing" /\ engine_position > 0
  /\ position = engine_position

\* C14: every change of track emits SongChanged with the new index and its
\* track and restarts the position at 0; when the listener has handled
\* SongChanged the store holds that index, position 0 and the duration of the
\* new track.
C14_TrackChangeResetsProgress ==
  [][/\ current_index' # current_index
          => /\ engine_position' = 0
             /\ \E k \in (Len(events) + 1)..Len(events') :
                  events'[k] = [type |-> "SongChanged", index |-> current_index',
                                track |-> engine_playlist[current_index' + 1]]
     /\ OnSongChanged
          => /\ currentIndex' = Head(events).index
             /\ position' = 0
             /\ duration' = TrackDuration(Head(events).track)]_vars

\* C14 witness: on [A, B] in Sequential mode next() has selected B after A was
\* played past its first tick, and the listener has handled the events
C14_Witness ==
  /\ play_mode = "Sequential" /\ Returned("next", "next", "ok") /\ events = <<>>
  /\ current_index = 1 /\ currentIndex = 1
  /\ position = 0 /\ duration = TrackDuration(playlist[2])
  /\ isNewSong /\ engine_position = 0

\* C15: stop() from Stopped, Playing or Paused: the engine handles it in any
\* state, ends Stopped with the playback session released, and the store
\* shows Stopped when stop() returns.
C15_StopReleasesSession ==
  /\ [][/\ Engine_stop => (player_state' = "Stopped" /\ ~session')
        /\ (stop_return /\ cmd.pc = "ok") => state' = "Stopped"]_vars
  /\ [](Received("stop") /\ CanEmit(1) => ENABLED Engine_stop)

\* C15 witness: the engine has handled stop() on a paused track
C15_Witness ==
  /\ Returned("stop", "stop", "ok") /\ state = "Paused"
  /\ player_state = "Stopped" /\ ~session /\ current_index # None

C17_RemoveCurrentClearsIndex ==
  (Quiescent /\ current_index = None /\ engine_playlist # <<>>)
    => currentIndex = None

\* C18 (as claimed): when clear returns with its events handled, by the
\* store's clearPlaylist or by the clear button of the Playlist component,
\* the store's playlist is empty and its currentIndex is null.
C18_ClearEmptiesStore ==
  [][(cmd.req = "clear_playlist" /\ cmd.pc = "ok" /\ cmd' = Idle /\ events' = <<>>)
       => (playlist' = <<>> /\ currentIndex' = None)]_vars

\* C18, by the store's clearPlaylist alone
C18_StoreClearEmptiesStore ==
  [][(cmd.op = "clearPlaylist" /\ cmd.pc = "ok" /\ cmd' = Idle /\ events' = <<>>)
       => (playlist' = <<>> /\ currentIndex' = None)]_vars

\* the index of the command in flight is outside [0, len) of the engine's
\* playlist
OutOfRange == cmd.arg < 0 \/ cmd.arg >= Len(engine_playlist)

\* C19: set_song and remove with an index outside [0, len) are rejected and
\* change nothing: the engine's playlist, current_index and state stay and no
\* event is emitted; the store method that ignores or is refused such an index
\* leaves the store as it was.
C19_OutOfRangeChangesNothing ==
  [][/\ ((Received("set_song") \/ Received("remove_song")) /\ OutOfRange
            /\ cmd' # cmd)
          => (cmd'.pc = "err" /\ UNCHANGED <<engineVars, events, sessionVars>>)
     /\ (cmd.op \in {"setCurrentSong", "removeSong"} /\ cmd.pc \in {"err", "ignored"}
            /\ cmd' = Idle)
          => UNCHANGED <<storeVars, engineVars>>
     /\ (cmd = Idle /\ cmd'.op = "setCurrentSong" /\ cmd'.pc = "ignored")
          => UNCHANGED <<storeVars, engineVars, events>>]_vars

\* C19 witness: the engine has refused an index that the store's playlist
\* still had, with a track selected
C19_Witness ==
  /\ cmd.req \in {"set_song", "remove_song"} /\ cmd.pc = "err"
  /\ cmd.arg >= Len(engine_playlist) /\ current_index # None

TrackChange ==
  Cardinality({k \in 1..Len(events') : events'[k].type = "SongChanged"})
    > Cardinality({k \in 1..Len(events) : events[k].type = "SongChanged"})

VideoStarts == video.mounted /\ video.paused /\ video'.mounted /\ ~video'.paused

\* setPlaybackMode issues the play command that starts the audio pipeline
AudioStartIssued == setPlaybackMode_resume /\ switch'.pc = "play_invoked"

OwnershipChanged(from, to) ==
  /\ switch.pc = "ok" /\ switch.oldMode = from /\ switch.target = to
  /\ playback_mode = to

\* C24 (as claimed): while a switch is in flight and the engine has changed
\* the owner, a report of the outgoing transport is discarded: a tick of the
\* audio pipeline on the way to Video, a report of the video on the way to
\* Audio, leave the position and the duration of the store as they were.
C24_OutgoingReportsDiscarded ==
  [][/\ (OwnershipChanged("Audio", "Video") /\ OnProgressUpdate)
          => UNCHANGED <<position, duration>>
     /\ (OwnershipChanged("Video", "Audio") /\ VideoReport)
          => UNCHANGED <<position, duration>>]_vars

\* a switch into Video mode has completed: engine and store are in Video mode
\* and no switch is in flight
VideoOwned ==
  playback_mode = "Video" /\ currentPlaybackMode = "Video" /\ switch.pc = "idle"

\* no progress event of the audio pipeline is on its way to the listener
NoAudioReport(q) == \A k \in 1..Len(q) : q[k].type # "ProgressUpdate"

NoSwitchPending(cs, rs) ==
  /\ \A k \in 1..Len(cs) : cs[k].req # "set_playback_mode"
  /\ \A k \in 1..Len(rs) : rs[k].then # "mode"

\* C28 (as claimed): when the reply to the most recent set_playback_mode is
\* taken by the store and no other switch is pending, engine and store are in
\* the same playback mode, and in the requested one if the engine accepted it.
C28_LastSwitchWins ==
  [][(Mutex_setPlaybackMode_return /\ NoSwitchPending(calls', replies'))
       => /\ currentPlaybackMode' = playback_mode'
          /\ Head(replies).ok => currentPlaybackMode' = Head(replies).arg]_vars

\* the progress events among the events on their way to the listener
CountProgress(q) == Cardinality({k \in 1..Len(q) : q[k].type = "ProgressUpdate"})

\* the engine emits a progress event
EmitsProgress == CountProgress(events') > CountProgress(events)

C31_StoreMirrorsEngine ==
  Quiescent => (state = player_state /\ currentIndex = current_index)

\* C32: when the engine rejects set_playback_mode, setPlaybackMode puts the
\* playback mode of the store back to what it was when the call started, which
\* is what it still is, leaves the state and the rest of the store alone, and
\* ends without a wait and without a play command.
C32_RejectedSwitchRollsBack ==
  [][(setPlaybackMode_return /\ switch.pc = "err")
       => /\ currentPlaybackMode' = switch.oldMode
          /\ currentPlaybackMode' = currentPlaybackMode
          /\ switch' = NoSwitch
          /\ UNCHANGED <<storeVars, cmd, playback_mode, player_state>>]_vars

C32_Witness ==
  /\ switch.pc = "err" /\ switch.target = "Video" /\ switch.oldMode = "Audio"
  /\ currentPlaybackMode = "Audio" /\ playback_mode = "Audio"

\* C33: in video mode seekTo(p) only sets the position of the store to p: no
\* seek_to is invoked, the engine and its pipeline are not touched, and the
\* rest of the store's progress, its state and its index stay as they were;
\* nor does any later step invoke seek_to while the store is in video mode.
C33_VideoSeekIsLocal ==
  [][/\ \A p \in SeekTargets :
          (isVideoMode /\ seekTo(p))
            => /\ position' = p
               /\ UNCHANGED <<seek, cmd, engineVars, avEngineVars, events, state,
                              currentIndex, duration, isTransitioning,
                              positionUpdateCount, isNewSong>>
     /\ (isVideoMode /\ seek.pc = "idle") => seek'.pc = "idle"]_vars

C33_Witness ==
  /\ currentPlaybackMode = "Video" /\ HasMv(currentSong)
  /\ position = VideoDuration + 1 /\ position # engine_position
  /\ seek = NoSeek /\ ~isTransitioning /\ seekTimers = 0

\* C34 (as claimed): while a seek_to of the store is in flight, isTransitioning
\* is true.
C34_TransitioningWhileSeeking ==
  seek.pc # "idle" => isTransitioning

\* C35 (as claimed): when a SongChanged event is handled, the controls show
\* position 0, progress 0 and the duration of the new track.
C35_SongChangedResetsBar ==
  [][OnSongChanged
       => /\ controls'.position = 0 /\ controls'.progress = 0
          /\ controls'.duration = TrackDuration(Head(events).track)]_vars

\* C36 (as claimed): a video that finishes loading while the store is not
\* Playing, the user having paused, stays paused and calls no play().
C36_LoadKeepsPause ==
  [][(handleVideoLoaded /\ ~isPlaying) => (video'.paused /\ cmd' = cmd)]_vars

\* the next() calls under way: invoked, or waiting behind stopAllPlayers()
NextCalls(q) ==
  Cardinality({k \in 1..Len(q) :
                 q[k].req = "next" \/ (q[k].then = "stopped" /\ q[k].old = "next")})

\* C37 (as claimed): every end of the video, also one inside the isolation
\* window that follows a seek, makes exactly one next() call.
C37_EndedAdvancesOnce ==
  [][Mutex_handleVideoEnded => NextCalls(calls') = NextCalls(calls) + 1]_vars

\* nothing of the mutex store is under way: no timer, call, reply or event
MutexQuiet ==
  /\ mutexTimers = {} /\ calls = <<>> /\ replies = <<>> /\ events = <<>>
  /\ heard = {} /\ ~Mutex_Dirty

\* C38 (as claimed): with no mutex timer or state check pending, exactly one
\* of isVideoPlayerActive and isAudioPlayerActive is true while the state is
\* Playing, and neither is while it is not.
C38_OneActivePlayer ==
  MutexQuiet =>
    IF state = "Playing"
    THEN isVideoPlayerActive # isAudioPlayerActive
    ELSE ~isVideoPlayerActive /\ ~isAudioPlayerActive

\* the window of a stopAllPlayers() is open: its pause is awaited, or its
\* 100 ms timer is pending
StopWindowOpen ==
  \/ "unlockStop" \in mutexTimers
  \/ \E k \in 1..Len(calls) : calls[k].then = "stopped"
  \/ \E k \in 1..Len(replies) : replies[k].then = "stopped"

\* C39 (as claimed): while the window of stopAllPlayers() is open, the timer
\* of an earlier activateVideoPlayer() or activateAudioPlayer() does not
\* release the lock.
C39_NoReleaseByEarlierHolder ==
  [][\A t \in {"unlockVideo", "unlockAudio"} :
       (Unlock(t) /\ mutexLock /\ StopWindowOpen) => mutexLock']_vars

\* C40 (as claimed): updateProgress(0, d) with d different from the duration
\* the store had detects a new song: isNewSong is true and positionUpdateCount
\* is 0 afterwards.
C40_NewSongDetected ==
  [][\A d \in ProgressValues :
       (Store_updateProgress(0, d) /\ d # duration)
         => (isNewSong' /\ positionUpdateCount' = 0)]_vars

====
